---- MODULE Spec2Model ----
(***************************************************************************)
(* Model of the parallel task engine of MA_PCM:                            *)
(*   - LockFreeStack (src/lockfree_stack.hpp): Treiber stack whose head    *)
(*     packs (node pointer << 16 | 16-bit tag) into one word;              *)
(*   - ParallelTaskRunner (src/parallel_task_runner.hpp): N workers that   *)
(*     pop, split-or-solve and account in outstanding_tasks.               *)
(*                                                                         *)
(* Every atomic access to shared memory is one step of the thread doing    *)
(* it.  Pointers are the small integers 1..MaxAddr, nullptr is 0.  A read  *)
(* of a freed node is undefined behaviour and yields any value; malloc may *)
(* return any free address.  Threads interleave sequentially consistently; *)
(* compare_exchange_weak is modelled without spurious failures.  The pure  *)
(* statistics total_idle_loops, total_work_loops, idle_threads and the     *)
(* local idle_loops are never read by the code and are left out.           *)
(*                                                                         *)
(* Spec      : one ParallelTaskRunner::run over an abstract task tree.     *)
(* FairSpec  : Spec with fairly scheduled worker threads.                  *)
(* SpecStack : client threads calling push/pop on a fresh LockFreeStack.   *)
(* SpecWrap  : the same clients, started in the state the stack is in      *)
(*             after 2^16 head updates while one thread is inside pop.     *)
(* SpecStop  : Spec with a second caller thread invoking stop().           *)
(* SpecIndex : SpecStack whose clients also call operator[].               *)
(* SpecClear : SpecStack whose clients also call clear().                  *)
(* SpecTSP   : one run of ModifiedTSPTask (src/modified_tsptask.hpp) over  *)
(*             a small graph, under ParallelTaskRunner or DirectTaskRunner;*)
(*             the task pool is a sequence with atomic push and pop.       *)
(* SpecPath  : TSPPath::setup and computeInitialBound for every graph     *)
(*             size up to MAX_GRAPH + 1.                                   *)
(* SpecPart  : PartitionedTaskStackRunner::run over an IntVecSortTask, a   *)
(*             TSPTask or a ModifiedTSPTask.                               *)
(* SpecSplit : one call of split on a collection that holds tasks.         *)
(* SpecSeq   : one caller of a FixedTaskStack and of a TaskStack.           *)
(* SpecSort  : IntVecSortTask (src/intvecsorttask.hpp) under               *)
(*             DirectTaskRunner and PartitionedTaskStackRunner.            *)
(***************************************************************************)
EXTENDS Integers, Naturals, Sequences, FiniteSets, TLC

\* ---- bounds of the model
MaxThreads == 2
MaxTasks == 2
MaxAddr == 3
MaxOps == 3
MaxCities == 4
MaxDist == 1
MaxTaskSize == 3
MaxLen == 4
MaxVal == 2

\* ---- program constants
nullptr == 0
TagMod == 65536
INT_MAX == 2147483647
FIRST_NODE == 0
PruneEvery == 16
MAX_GRAPH == 32

Threads == 1..MaxThreads
Tasks == 1..MaxTasks
Addr == 1..MaxAddr

VARIABLES
  head, mem, size_counter,              \* LockFreeStack: head word, node heap, size_counter
  pc, old_head, next_ptr, node, ret,    \* per thread: position and locals of push/pop
  nthreads,                             \* _num_threads / number of client threads
  termination_requested, active_workers, tasks_processed, tasks_created,
  outstanding_tasks,                    \* ParallelTaskRunner atomics
  mainpc, tree, cur, kid, n,            \* caller of run, task tree, worker locals
  ops, out,                             \* stack clients: operations begun, tasks outside the pool
  nPushed, nPopped, nProc, exitedAt,    \* history: pushes/pops linearised, tasks split or solved
  stale, aba, lifo, expect,             \* history: head modified since load, spurious CAS, abstract stack
  stoppc, aborted,                      \* caller of stop(); process ended by std::terminate
  index_calls, index_errors,            \* operator[] calls made, runtime_errors they threw
  dist, ncities, cutoff_size, runner,   \* TSPGraph, TSPPath::full(), _cutoff_size, runner in use
  best_distance, best_path, initial_bound_set,   \* ModifiedTSPTask statics
  task_pool,                            \* the pool of TSP tasks, each task its _path
  path, check_counter, loop_i, current_best,  \* per thread: _path, _local_best_check_counter of the
  count, depth,                         \*   task held, locals of split/solve, recursion depth of solve
  split_returned,                       \* history: some split has returned
  input, iv1, iv2, sortpc,              \* IntVecSortTask: the vector drawn, iv1, iv2, position of main
  clearing,                             \* per thread: inside LockFreeStack::clear
  frames, events, shortest,             \* PartitionedTaskStackRunner: the calls of recurse in
                                        \*   progress, history of split/solve/merge, TSPTask::_shortest
  ftab, fsize, fcapacity, ttab, thrown  \* FixedTaskStack members, TaskStack::_tab, error raised by
                                        \*   the last call

stackVars == <<head, mem, size_counter>>
opVars == <<old_head, next_ptr, node, ret>>
runVars == <<termination_requested, active_workers, tasks_processed, tasks_created,
             outstanding_tasks, mainpc, tree, cur, kid, n, nProc, exitedAt>>
clientVars == <<ops, out>>
histVars == <<nPushed, nPopped, stale, aba, lifo, expect>>
stopVars == <<stoppc, aborted>>
indexVars == <<index_calls, index_errors>>
graphVars == <<dist, ncities, cutoff_size>>
incumbentVars == <<best_distance, best_path, initial_bound_set>>
taskVars == <<path, check_counter, loop_i, current_best, count, depth>>
tspVars == <<graphVars, runner, incumbentVars, task_pool, taskVars, split_returned>>
sortVars == <<input, iv1, iv2, sortpc>>
clearVars == <<clearing>>
partVars == <<frames, events, shortest>>
seqVars == <<ftab, fsize, fcapacity, ttab, thrown>>
laterVars == <<clearVars, partVars, seqVars>>
otherVars == <<stopVars, indexVars, tspVars, sortVars, laterVars>>
vars == <<stackVars, opVars, pc, nthreads, runVars, clientVars, histVars, otherVars>>

\* ---- packed head word (src/lockfree_stack.hpp:41-50); pointers fit in 48 bits
pack(p, counter) == p * TagMod + counter
unpack_ptr(packed) == packed \div TagMod
unpack_cnt(packed) == packed % TagMod
Cast16(x) == x % TagMod

FreeNode == [alloc |-> FALSE, task |-> 0, next |-> 0]

\* ---- task trees: tree[c] is the parent of task c (0: task c does not exist); task 1 is the root
Trees == { p \in [2..MaxTasks -> 0..MaxTasks] :
             \A c \in 2..MaxTasks : /\ p[c] < c
                                    /\ (p[c] = 0 => \A d \in c..MaxTasks : p[d] = 0) }
NoTree == [c \in 2..MaxTasks |-> 0]
TaskSet == {1} \cup {c \in 2..MaxTasks : tree[c] # 0}
Kids(t) == {c \in 2..MaxTasks : tree[c] = t}
NthKid(t, i) == CHOOSE c \in Kids(t) : Cardinality({d \in Kids(t) : d < c}) = i - 1
Leaves == {t \in TaskSet : Kids(t) = {}}
Splits == {t \in TaskSet : Kids(t) # {}}

\* ---- nodes reachable from head, as the sequence of their tasks
RECURSIVE Chain(_, _)
Chain(p, fuel) ==
  IF p = nullptr \/ fuel = 0 THEN <<>>
  ELSE IF ~mem[p].alloc THEN <<>>
  ELSE <<mem[p].task>> \o Chain(unpack_ptr(mem[p].next), fuel - 1)
Resident == Chain(unpack_ptr(head), MaxAddr + 1)
Count(s, x) == Cardinality({i \in 1..Len(s) : s[i] = x})

InWindow(t) == pc[t] \in {"pop_next", "pop_cas", "push_cas"}
Staled(t) == [u \in Threads |-> IF u # t /\ InWindow(u) THEN TRUE ELSE stale[u]]

----------------------------------------------------------------------------
\* head.compare_exchange_weak(old_head, new_head): succeeds iff head still holds old_head
CasIgnoresHead(t) == TRUE
CasSucceeds(t) == head = old_head[t]

\* push: node->next = pack(old_ptr, old_cnt)
LinkDropped(h) == pack(nullptr, 0)
LinkedNext(h) == pack(unpack_ptr(h), unpack_cnt(h))

\* LockFreeStack::push
Malloc(t, x) ==
  \E a \in Addr :
    /\ ~mem[a].alloc
    /\ mem' = [mem EXCEPT ![a] = [alloc |-> TRUE, task |-> x, next |-> pack(nullptr, 0)]]
    /\ node' = [node EXCEPT ![t] = a]

PushLoad(t) ==
  /\ pc[t] = "push_load"
  /\ old_head' = [old_head EXCEPT ![t] = head]
  /\ mem' = [mem EXCEPT ![node[t]].next = LinkedNext(head)]
  /\ stale' = [stale EXCEPT ![t] = FALSE]
  /\ pc' = [pc EXCEPT ![t] = "push_cas"]
  /\ UNCHANGED <<head, size_counter, next_ptr, node, ret, nthreads, otherVars, runVars, clientVars,
                 nPushed, nPopped, aba, lifo, expect>>

PushCAS(t) ==
  /\ pc[t] = "push_cas"
  /\ IF CasSucceeds(t)
     THEN /\ head' = pack(node[t], Cast16(unpack_cnt(old_head[t]) + 1))
          /\ nPushed' = [nPushed EXCEPT ![mem[node[t]].task] = @ + 1]
          /\ lifo' = <<mem[node[t]].task>> \o lifo
          /\ aba' = (aba \/ stale[t])
          /\ stale' = [Staled(t) EXCEPT ![t] = FALSE]
          /\ pc' = [pc EXCEPT ![t] = "push_inc"]
     ELSE /\ pc' = [pc EXCEPT ![t] = "push_load"]
          /\ UNCHANGED <<head, nPushed, lifo, aba, stale>>
  /\ UNCHANGED <<mem, size_counter, opVars, nthreads, otherVars, runVars, clientVars, nPopped, expect>>

PushInc(t) ==
  /\ pc[t] = "push_inc"
  /\ size_counter' = size_counter + 1
  /\ old_head' = [old_head EXCEPT ![t] = 0]
  /\ node' = [node EXCEPT ![t] = 0]
  /\ pc' = [pc EXCEPT ![t] = "push_ret"]
  /\ UNCHANGED <<head, mem, next_ptr, ret, nthreads, otherVars, runVars, clientVars, histVars>>

\* LockFreeStack::pop
PopLoad(t) ==
  /\ pc[t] = "pop_load"
  /\ stale' = [stale EXCEPT ![t] = FALSE]
  /\ IF unpack_ptr(head) = nullptr
     THEN /\ ret' = [ret EXCEPT ![t] = 0]
          /\ expect' = [expect EXCEPT ![t] = IF lifo = <<>> THEN 0 ELSE Head(lifo)]
          /\ pc' = [pc EXCEPT ![t] = "pop_ret"]
          /\ UNCHANGED old_head
     ELSE /\ old_head' = [old_head EXCEPT ![t] = head]
          /\ pc' = [pc EXCEPT ![t] = "pop_next"]
          /\ UNCHANGED <<ret, expect>>
  /\ UNCHANGED <<stackVars, next_ptr, node, nthreads, otherVars, runVars, clientVars,
                 nPushed, nPopped, aba, lifo>>

PopNext(t) ==
  /\ pc[t] = "pop_next"
  /\ LET p == unpack_ptr(old_head[t]) IN
       IF mem[p].alloc
       THEN next_ptr' = [next_ptr EXCEPT ![t] = unpack_ptr(mem[p].next)]
       ELSE \E v \in 0..MaxAddr : next_ptr' = [next_ptr EXCEPT ![t] = v]
  /\ pc' = [pc EXCEPT ![t] = "pop_cas"]
  /\ UNCHANGED <<stackVars, old_head, node, ret, nthreads, otherVars, runVars, clientVars, histVars>>

PopCAS(t) ==
  /\ pc[t] = "pop_cas"
  /\ IF CasSucceeds(t)
     THEN LET p == unpack_ptr(old_head[t]) IN
          /\ head' = pack(next_ptr[t], Cast16(unpack_cnt(old_head[t]) + 1))
          /\ \E x \in (IF mem[p].alloc THEN {mem[p].task} ELSE 0..MaxTasks) :
               /\ ret' = [ret EXCEPT ![t] = x]
               /\ nPopped' = [y \in Tasks |-> IF y = x THEN nPopped[y] + 1 ELSE nPopped[y]]
          /\ mem' = [mem EXCEPT ![p] = FreeNode]
          /\ expect' = [expect EXCEPT ![t] = IF lifo = <<>> THEN 0 ELSE Head(lifo)]
          /\ lifo' = IF lifo = <<>> THEN <<>> ELSE Tail(lifo)
          /\ aba' = (aba \/ stale[t])
          /\ stale' = [Staled(t) EXCEPT ![t] = FALSE]
          /\ old_head' = [old_head EXCEPT ![t] = 0]
          /\ next_ptr' = [next_ptr EXCEPT ![t] = 0]
          /\ pc' = [pc EXCEPT ![t] = "pop_dec"]
     ELSE /\ pc' = [pc EXCEPT ![t] = "pop_load"]
          /\ old_head' = [old_head EXCEPT ![t] = 0]
          /\ next_ptr' = [next_ptr EXCEPT ![t] = 0]
          /\ UNCHANGED <<head, mem, ret, nPopped, expect, lifo, aba, stale>>
  /\ UNCHANGED <<size_counter, node, nthreads, otherVars, runVars, clientVars, nPushed>>

PopDec(t) ==
  /\ pc[t] = "pop_dec"
  /\ size_counter' = size_counter - 1
  /\ pc' = [pc EXCEPT ![t] = "pop_ret"]
  /\ UNCHANGED <<head, mem, opVars, nthreads, otherVars, runVars, clientVars, histVars>>

StackOp(t) ==
  \/ PushLoad(t) \/ PushCAS(t) \/ PushInc(t)
  \/ PopLoad(t) \/ PopNext(t) \/ PopCAS(t) \/ PopDec(t)

----------------------------------------------------------------------------
\* ParallelTaskRunner::worker_function
Holds(w) == cur[w] # 0 \/ (pc[w] \in {"pop_dec", "pop_ret"} /\ ret[w] # 0)
PoolEmpty == unpack_ptr(head) = nullptr

\* outstanding_tasks.fetch_add(n)
OutstandingAddCountsParent(w) == outstanding_tasks + n[w] + 1
OutstandingAfterAdd(w) == outstanding_tasks + n[w]

\* tasks_created.fetch_add(n)
CreatedCountsParent(w) == tasks_created + n[w] + 1
CreatedAfterSplit(w) == tasks_created + n[w]

\* w.join() has returned for worker w
JoinSkipped(w) == TRUE
Joined(w) == pc[w] = "w_done"

\* worker_function: outstanding_tasks.fetch_sub(1) once the task is completed
OutstandingKept == outstanding_tasks
OutstandingAfterSub == outstanding_tasks - 1

WorkerStart(w) ==
  /\ pc[w] = "w_start"
  /\ active_workers' = active_workers + 1
  /\ pc' = [pc EXCEPT ![w] = "w_loop"]
  /\ UNCHANGED <<stackVars, opVars, nthreads, otherVars, termination_requested, tasks_processed,
                 tasks_created, outstanding_tasks, mainpc, tree, cur, kid, n, nProc,
                 exitedAt, clientVars, histVars>>

WorkerLoop(w) ==
  /\ pc[w] = "w_loop"
  /\ pc' = [pc EXCEPT ![w] = IF termination_requested THEN "w_exit" ELSE "pop_load"]
  /\ UNCHANGED <<stackVars, opVars, nthreads, otherVars, runVars, clientVars, histVars>>

WorkerPopReturn(w) ==
  /\ pc[w] = "pop_ret"
  /\ IF ret[w] = 0
     THEN /\ pc' = [pc EXCEPT ![w] = "idle_out"]
          /\ UNCHANGED <<cur, kid>>
     ELSE /\ cur' = [cur EXCEPT ![w] = ret[w]]
          /\ kid' = [kid EXCEPT ![w] = 1]
          /\ pc' = [pc EXCEPT ![w] = "split"]
  /\ ret' = [ret EXCEPT ![w] = 0]
  /\ expect' = [expect EXCEPT ![w] = 0]
  /\ UNCHANGED <<stackVars, old_head, next_ptr, node, nthreads, otherVars, termination_requested,
                 active_workers, tasks_processed, tasks_created, outstanding_tasks,
                 mainpc, tree, n, nProc, exitedAt, clientVars,
                 nPushed, nPopped, stale, aba, lifo>>

WorkerIdleOutstanding(w) ==
  /\ pc[w] = "idle_out"
  /\ pc' = [pc EXCEPT ![w] = IF outstanding_tasks = 0 THEN "idle_empty" ELSE "w_loop"]
  /\ UNCHANGED <<stackVars, opVars, nthreads, otherVars, runVars, clientVars, histVars>>

WorkerIdleEmpty(w) ==
  /\ pc[w] = "idle_empty"
  /\ IF PoolEmpty
     THEN /\ pc' = [pc EXCEPT ![w] = "w_exit"]
          /\ exitedAt' = [exitedAt EXCEPT ![w] =
                            IF Resident = <<>> /\ \A u \in Threads \ {w} : ~Holds(u)
                            THEN "quiescent" ELSE "busy"]
     ELSE /\ pc' = [pc EXCEPT ![w] = "w_loop"]
          /\ UNCHANGED exitedAt
  /\ UNCHANGED <<stackVars, opVars, nthreads, otherVars, termination_requested, active_workers,
                 tasks_processed, tasks_created, outstanding_tasks, mainpc, tree, cur,
                 kid, n, nProc, clientVars, histVars>>

\* task->split(&task_pool): one collection->push per child, then return the count
WorkerSplit(w) ==
  /\ pc[w] = "split"
  /\ IF kid[w] <= Cardinality(Kids(cur[w]))
     THEN /\ Malloc(w, NthKid(cur[w], kid[w]))
          /\ pc' = [pc EXCEPT ![w] = "push_load"]
          /\ UNCHANGED n
     ELSE /\ n' = [n EXCEPT ![w] = kid[w] - 1]
          /\ pc' = [pc EXCEPT ![w] = IF kid[w] - 1 > 0 THEN "tc_add" ELSE "solve"]
          /\ UNCHANGED <<mem, node>>
  /\ UNCHANGED <<head, size_counter, old_head, next_ptr, ret, nthreads, otherVars,
                 termination_requested, active_workers, tasks_processed, tasks_created,
                 outstanding_tasks, mainpc, tree, cur, kid, nProc, exitedAt,
                 clientVars, histVars>>

WorkerPushReturn(w) ==
  /\ pc[w] = "push_ret"
  /\ kid' = [kid EXCEPT ![w] = @ + 1]
  /\ pc' = [pc EXCEPT ![w] = "split"]
  /\ UNCHANGED <<stackVars, opVars, nthreads, otherVars, termination_requested, active_workers,
                 tasks_processed, tasks_created, outstanding_tasks, mainpc, tree, cur,
                 n, nProc, exitedAt, clientVars, histVars>>

WorkerCreated(w) ==
  /\ pc[w] = "tc_add"
  /\ tasks_created' = CreatedAfterSplit(w)
  /\ pc' = [pc EXCEPT ![w] = "out_add"]
  /\ UNCHANGED <<stackVars, opVars, nthreads, otherVars, termination_requested, active_workers,
                 tasks_processed, outstanding_tasks, mainpc, tree, cur, kid, n, nProc,
                 exitedAt, clientVars, histVars>>

WorkerOutstandingAdd(w) ==
  /\ pc[w] = "out_add"
  /\ outstanding_tasks' = OutstandingAfterAdd(w)
  /\ nProc' = [nProc EXCEPT ![cur[w]] = @ + 1]
  /\ cur' = [cur EXCEPT ![w] = 0]
  /\ kid' = [kid EXCEPT ![w] = 0]
  /\ n' = [n EXCEPT ![w] = 0]
  /\ pc' = [pc EXCEPT ![w] = "out_sub"]
  /\ UNCHANGED <<stackVars, opVars, nthreads, otherVars, termination_requested, active_workers,
                 tasks_processed, tasks_created, mainpc, tree, exitedAt,
                 clientVars, histVars>>

\* task->solve(); delete task
WorkerSolve(w) ==
  /\ pc[w] = "solve"
  /\ nProc' = [nProc EXCEPT ![cur[w]] = @ + 1]
  /\ cur' = [cur EXCEPT ![w] = 0]
  /\ kid' = [kid EXCEPT ![w] = 0]
  /\ pc' = [pc EXCEPT ![w] = "tp_add"]
  /\ UNCHANGED <<stackVars, opVars, nthreads, otherVars, termination_requested, active_workers,
                 tasks_processed, tasks_created, outstanding_tasks, mainpc, tree, n,
                 exitedAt, clientVars, histVars>>

WorkerProcessed(w) ==
  /\ pc[w] = "tp_add"
  /\ tasks_processed' = tasks_processed + 1
  /\ pc' = [pc EXCEPT ![w] = "out_sub"]
  /\ UNCHANGED <<stackVars, opVars, nthreads, otherVars, termination_requested, active_workers,
                 tasks_created, outstanding_tasks, mainpc, tree, cur, kid, n, nProc,
                 exitedAt, clientVars, histVars>>

WorkerOutstandingSub(w) ==
  /\ pc[w] = "out_sub"
  /\ outstanding_tasks' = OutstandingAfterSub
  /\ pc' = [pc EXCEPT ![w] = "w_loop"]
  /\ UNCHANGED <<stackVars, opVars, nthreads, otherVars, termination_requested, active_workers,
                 tasks_processed, tasks_created, mainpc, tree, cur, kid, n, nProc,
                 exitedAt, clientVars, histVars>>

WorkerExit(w) ==
  /\ pc[w] = "w_exit"
  /\ active_workers' = active_workers - 1
  /\ pc' = [pc EXCEPT ![w] = "w_done"]
  /\ UNCHANGED <<stackVars, opVars, nthreads, otherVars, termination_requested, tasks_processed,
                 tasks_created, outstanding_tasks, mainpc, tree, cur, kid, n, nProc,
                 exitedAt, clientVars, histVars>>

worker_function(w) ==
  \/ WorkerStart(w) \/ WorkerLoop(w) \/ StackOp(w) \/ WorkerPopReturn(w)
  \/ WorkerIdleOutstanding(w) \/ WorkerIdleEmpty(w) \/ WorkerSplit(w)
  \/ WorkerPushReturn(w) \/ WorkerCreated(w) \/ WorkerOutstandingAdd(w)
  \/ WorkerSolve(w) \/ WorkerProcessed(w) \/ WorkerOutstandingSub(w) \/ WorkerExit(w)

\* ParallelTaskRunner::run up to the spawning of the workers (no other thread exists yet):
\* reset of the counters, task_pool.clear(), task_pool.push(root_task), tasks_created = 1
run(tr) ==
  /\ mainpc = "constructed"
  /\ tree' = tr
  /\ termination_requested' = FALSE
  /\ tasks_processed' = 0
  /\ outstanding_tasks' = 1
  /\ \E a \in Addr :
       /\ mem' = [b \in Addr |-> IF b = a
                                 THEN [alloc |-> TRUE, task |-> 1, next |-> pack(nullptr, 0)]
                                 ELSE FreeNode]
       /\ head' = pack(a, Cast16(unpack_cnt(pack(nullptr, 0)) + 1))
  /\ size_counter' = 1
  /\ tasks_created' = 1
  /\ nPushed' = [nPushed EXCEPT ![1] = @ + 1]
  /\ lifo' = <<1>>
  /\ pc' = [w \in Threads |-> IF w <= nthreads THEN "w_start" ELSE "none"]
  /\ mainpc' = "joining"
  /\ UNCHANGED <<opVars, nthreads, otherVars, active_workers, cur, kid, n, nProc, exitedAt,
                 clientVars, nPopped, stale, aba, expect>>

\* ParallelTaskRunner::run: join of all workers, workers.clear(), return
join ==
  /\ mainpc = "joining"
  /\ \A w \in Threads : w <= nthreads => Joined(w)
  /\ pc' = [w \in Threads |-> "none"]
  /\ mainpc' = "returned"
  /\ UNCHANGED <<stackVars, opVars, nthreads, otherVars, termination_requested, active_workers,
                 tasks_processed, tasks_created, outstanding_tasks, tree, cur, kid, n,
                 nProc, exitedAt, clientVars, histVars>>

\* TSPPath(): the path holding city 0 only; NoPath stands for "no task held"
NewPath == [node |-> <<FIRST_NODE>>, distance |-> 0, contents |-> {FIRST_NODE}]
NoPath == [node |-> <<>>, distance |-> 0, contents |-> {}]

\* the parts of the program that a specification does not exercise stay as constructed
StopIdle == stoppc = "idle" /\ aborted = FALSE
IndexIdle == index_calls = 0 /\ index_errors = 0
TaskIdle ==
  /\ path = [t \in Threads |-> NoPath]
  /\ check_counter = [t \in Threads |-> 0]
  /\ loop_i = [t \in Threads |-> 0]
  /\ current_best = [t \in Threads |-> 0]
  /\ count = [t \in Threads |-> 0]
  /\ depth = [t \in Threads |-> 0]
TspIdle ==
  /\ dist = <<>>
  /\ ncities = 0
  /\ cutoff_size = INT_MAX
  /\ runner = "none"
  /\ best_distance = INT_MAX
  /\ best_path = NewPath
  /\ initial_bound_set = FALSE
  /\ task_pool = <<>>
  /\ TaskIdle
  /\ split_returned = FALSE
SortIdle == input = <<>> /\ iv1 = <<>> /\ iv2 = <<>> /\ sortpc = "none"
ClearIdle == clearing = [t \in Threads |-> FALSE]
PartIdle == frames = <<>> /\ events = <<>> /\ shortest = NewPath
SeqIdle == ftab = <<>> /\ fsize = 0 /\ fcapacity = 0 /\ ttab = <<>> /\ thrown = "none"
LaterIdle == ClearIdle /\ PartIdle /\ SeqIdle

\* state after ParallelTaskRunner(num_threads) and LockFreeStack()
RunnerInit ==
  /\ head = pack(nullptr, 0)
  /\ mem = [a \in Addr |-> FreeNode]
  /\ size_counter = 0
  /\ pc = [t \in Threads |-> "none"]
  /\ old_head = [t \in Threads |-> 0]
  /\ next_ptr = [t \in Threads |-> 0]
  /\ node = [t \in Threads |-> 0]
  /\ ret = [t \in Threads |-> 0]
  /\ nthreads \in Threads
  /\ termination_requested = FALSE
  /\ active_workers = 0
  /\ tasks_processed = 0
  /\ tasks_created = 0
  /\ outstanding_tasks = 0
  /\ mainpc = "constructed"
  /\ tree = NoTree
  /\ cur = [t \in Threads |-> 0]
  /\ kid = [t \in Threads |-> 0]
  /\ n = [t \in Threads |-> 0]
  /\ ops = 0
  /\ out = [x \in Tasks |-> TRUE]
  /\ nPushed = [x \in Tasks |-> 0]
  /\ nPopped = [x \in Tasks |-> 0]
  /\ nProc = [x \in Tasks |-> 0]
  /\ exitedAt = [t \in Threads |-> "none"]
  /\ stale = [t \in Threads |-> FALSE]
  /\ aba = FALSE
  /\ lifo = <<>>
  /\ expect = [t \in Threads |-> 0]

Init == RunnerInit /\ StopIdle /\ IndexIdle /\ TspIdle /\ SortIdle /\ LaterIdle

Next ==
  \/ \E tr \in Trees : run(tr)
  \/ \E w \in Threads : worker_function(w)
  \/ join

Spec == Init /\ [][Next]_vars

\* worker threads and the joining caller are scheduled fairly
FairSpec == Spec /\ (\A w \in Threads : WF_vars(worker_function(w))) /\ WF_vars(join)

----------------------------------------------------------------------------
\* Client threads of a LockFreeStack: each repeatedly calls push(x), for a task x that is
\* outside the pool, or pop(); at most MaxOps calls are begun.
ClientPush(t, x) ==
  /\ pc[t] = "c_idle"
  /\ ops < MaxOps
  /\ out[x]
  /\ Malloc(t, x)
  /\ out' = [out EXCEPT ![x] = FALSE]
  /\ ops' = ops + 1
  /\ pc' = [pc EXCEPT ![t] = "push_load"]
  /\ UNCHANGED <<head, size_counter, old_head, next_ptr, ret, nthreads, otherVars, runVars, histVars>>

ClientPushReturn(t) ==
  /\ pc[t] = "push_ret"
  /\ pc' = [pc EXCEPT ![t] = "c_idle"]
  /\ UNCHANGED <<stackVars, opVars, nthreads, otherVars, runVars, clientVars, histVars>>

ClientPop(t) ==
  /\ pc[t] = "c_idle"
  /\ ops < MaxOps
  /\ ops' = ops + 1
  /\ pc' = [pc EXCEPT ![t] = "pop_load"]
  /\ UNCHANGED <<stackVars, opVars, nthreads, otherVars, runVars, out, histVars>>

ClientPopReturn(t) ==
  /\ pc[t] = "pop_ret"
  /\ ~clearing[t]
  /\ out' = [x \in Tasks |-> IF x = ret[t] THEN TRUE ELSE out[x]]
  /\ ret' = [ret EXCEPT ![t] = 0]
  /\ expect' = [expect EXCEPT ![t] = 0]
  /\ pc' = [pc EXCEPT ![t] = "c_idle"]
  /\ UNCHANGED <<stackVars, old_head, next_ptr, node, nthreads, otherVars, runVars, ops,
                 nPushed, nPopped, stale, aba, lifo>>

Client(t) ==
  \/ \E x \in Tasks : ClientPush(t, x)
  \/ ClientPop(t)
  \/ StackOp(t)
  \/ ClientPushReturn(t)
  \/ ClientPopReturn(t)

StackNext == \E t \in Threads : Client(t)

\* a fresh LockFreeStack and nthreads idle client threads
StackInit ==
  /\ head = pack(nullptr, 0)
  /\ mem = [a \in Addr |-> FreeNode]
  /\ size_counter = 0
  /\ nthreads \in Threads
  /\ pc = [t \in Threads |-> IF t <= nthreads THEN "c_idle" ELSE "none"]
  /\ old_head = [t \in Threads |-> 0]
  /\ next_ptr = [t \in Threads |-> 0]
  /\ node = [t \in Threads |-> 0]
  /\ ret = [t \in Threads |-> 0]
  /\ termination_requested = FALSE
  /\ active_workers = 0
  /\ tasks_processed = 0
  /\ tasks_created = 0
  /\ outstanding_tasks = 0
  /\ mainpc = "constructed"
  /\ tree = NoTree
  /\ cur = [t \in Threads |-> 0]
  /\ kid = [t \in Threads |-> 0]
  /\ n = [t \in Threads |-> 0]
  /\ ops = 0
  /\ out = [x \in Tasks |-> TRUE]
  /\ nPushed = [x \in Tasks |-> 0]
  /\ nPopped = [x \in Tasks |-> 0]
  /\ nProc = [x \in Tasks |-> 0]
  /\ exitedAt = [t \in Threads |-> "none"]
  /\ stale = [t \in Threads |-> FALSE]
  /\ aba = FALSE
  /\ lifo = <<>>
  /\ expect = [t \in Threads |-> 0]
  /\ StopIdle /\ IndexIdle /\ TspIdle /\ SortIdle /\ LaterIdle

SpecStack == StackInit /\ [][StackNext]_vars

\* The state of a LockFreeStack used by two client threads after this run of the code:
\*   thread 2: push(1) at node 1, head = pack(1,1); push(2) at node 2, head = pack(2,2);
\*   thread 1: pop() loads head = pack(2,2) and reads node 2's next = node 1, then is
\*             preempted before its compare_exchange;
\*   thread 2: pop() twice, head = pack(nullptr,4), both nodes freed; then 32766 times
\*             push(1); pop(), two head updates each: the 16-bit tag wraps and
\*             head = pack(nullptr, (4 + 65532) % 65536) = pack(nullptr, 0).
\* The history variables are counted from this state on.
WrapInit ==
  /\ head = pack(nullptr, Cast16(4 + 2 * 32766))
  /\ mem = [a \in Addr |-> FreeNode]
  /\ size_counter = 0
  /\ nthreads = 2
  /\ pc = [t \in Threads |-> IF t = 1 THEN "pop_cas" ELSE IF t = 2 THEN "c_idle" ELSE "none"]
  /\ old_head = [t \in Threads |-> IF t = 1 THEN pack(2, 2) ELSE 0]
  /\ next_ptr = [t \in Threads |-> IF t = 1 THEN 1 ELSE 0]
  /\ node = [t \in Threads |-> 0]
  /\ ret = [t \in Threads |-> 0]
  /\ termination_requested = FALSE
  /\ active_workers = 0
  /\ tasks_processed = 0
  /\ tasks_created = 0
  /\ outstanding_tasks = 0
  /\ mainpc = "constructed"
  /\ tree = NoTree
  /\ cur = [t \in Threads |-> 0]
  /\ kid = [t \in Threads |-> 0]
  /\ n = [t \in Threads |-> 0]
  /\ ops = 0
  /\ out = [x \in Tasks |-> TRUE]
  /\ nPushed = [x \in Tasks |-> 0]
  /\ nPopped = [x \in Tasks |-> 0]
  /\ nProc = [x \in Tasks |-> 0]
  /\ exitedAt = [t \in Threads |-> "none"]
  /\ stale = [t \in Threads |-> t = 1]
  /\ aba = FALSE
  /\ lifo = <<>>
  /\ expect = [t \in Threads |-> 0]
  /\ StopIdle /\ IndexIdle /\ TspIdle /\ SortIdle /\ LaterIdle

SpecWrap == WrapInit /\ [][StackNext]_vars

----------------------------------------------------------------------------
\* ParallelTaskRunner::stop, called by a second thread while run is joining the workers.
\* stop and run then join the same std::thread objects of `workers` without any
\* synchronisation.  This data race is undefined behaviour; its outcomes are: both join
\* loops complete; the second join of a thread fails with std::system_error, which the
\* caller of stop catches; or the exception is not caught (run's caller main has no
\* handler) and std::terminate ends the process with its workers.

stopIdleVars == <<stackVars, opVars, pc, nthreads, active_workers, tasks_processed,
                  tasks_created, outstanding_tasks, mainpc, tree, cur, kid, n, nProc,
                  exitedAt, clientVars, histVars, indexVars, tspVars, sortVars, laterVars>>

\* stop: termination_requested.store(true); cv.notify_all()
StopStore ==
  /\ stoppc = "idle"
  /\ mainpc = "joining"
  /\ ~aborted
  /\ termination_requested' = TRUE
  /\ stoppc' = "joining"
  /\ UNCHANGED <<stopIdleVars, aborted>>

\* stop: for (auto& w : workers) if (w.joinable()) w.join(); workers.clear()
StopJoin ==
  /\ stoppc = "joining"
  /\ ~aborted
  /\ mainpc = "returned" \/ \A w \in Threads : w <= nthreads => Joined(w)
  /\ stoppc' = "returned"
  /\ UNCHANGED <<stopIdleVars, termination_requested, aborted>>

\* stop: w.join() on a thread that run is joining throws std::system_error to the caller
StopJoinThrows ==
  /\ stoppc = "joining"
  /\ ~aborted
  /\ mainpc = "joining"
  /\ stoppc' = "threw"
  /\ UNCHANGED <<stopIdleVars, termination_requested, aborted>>

\* the std::system_error of the concurrent join is not caught: std::terminate
StopJoinTerminates ==
  /\ stoppc = "joining"
  /\ ~aborted
  /\ mainpc = "joining"
  /\ stoppc' = "threw"
  /\ aborted' = TRUE
  /\ UNCHANGED <<stopIdleVars, termination_requested>>

\* the threads of the process run as long as the process has not been terminated
Running(A) == ~aborted /\ A

StopNext ==
  \/ \E tr \in Trees : run(tr)
  \/ \E w \in Threads : Running(worker_function(w))
  \/ Running(join)
  \/ StopStore
  \/ StopJoin
  \/ StopJoinThrows
  \/ StopJoinTerminates

SpecStop == Init /\ [][StopNext]_vars

\* worker threads, the joining caller of run and the caller of stop are scheduled fairly
FairSpecStop ==
  /\ SpecStop
  /\ \A w \in Threads : WF_vars(Running(worker_function(w)))
  /\ WF_vars(Running(join))
  /\ WF_vars(StopJoin)

----------------------------------------------------------------------------
\* TSPGraph and TSPPath

Edges(N) == {e \in (0..(N - 1)) \X (0..(N - 1)) : e[1] < e[2]}

\* TSPGraph(filename): _dist is symmetric, non-negative, with a zero diagonal
Graphs(N) ==
  { [e \in (0..(N - 1)) \X (0..(N - 1)) |->
       IF e[1] = e[2] THEN 0
       ELSE IF e[1] < e[2] THEN w[e] ELSE w[<<e[2], e[1]>>]] : w \in [Edges(N) -> 0..MaxDist] }

graphDistance(a, b) == dist[<<a, b>>]
tail(p) == p.node[Len(p.node)]
contains(p, i) == i \in p.contents
maximise(p) == [p EXCEPT !.distance = INT_MAX]

\* TSPPath::push; the argument is always a city of the graph, so it never throws here
PathPush(p, c) ==
  [node |-> Append(p.node, c),
   distance |-> p.distance + graphDistance(tail(p), c),
   contents |-> p.contents \cup {c}]

\* TSPPath::pop: if (oldtail != FIRST_NODE) _contents.reset(oldtail)
ContentsResetAlways(c, oldtail) == c \ {oldtail}
ContentsAfterPop(c, oldtail) == IF oldtail # FIRST_NODE THEN c \ {oldtail} ELSE c

\* TSPPath::pop; it is only called on paths of size >= 2
PathPop(p) ==
  LET oldtail == p.node[Len(p.node)]
      newtail == p.node[Len(p.node) - 1]
  IN [node |-> SubSeq(p.node, 1, Len(p.node) - 1),
      distance |-> p.distance - graphDistance(newtail, oldtail),
      contents |-> ContentsAfterPop(p.contents, oldtail)]

\* computeInitialBound: the path 0, 1, ..., N-1, 0
RECURSIVE PushAll(_, _)
PushAll(p, i) == IF i < ncities THEN PushAll(PathPush(p, i), i + 1) ELSE p
NaiveTour == PathPush(PushAll(NewPath, 1), FIRST_NODE)

\* computeInitialBound: best_distance.store(d)
BoundNotStored(d) == best_distance
BoundStored(d) == d

\* updateBestPath: while (candidate_dist < current_best)
CandidateAlways(c, b) == TRUE
CandidateBetter(c, b) == c < b

\* updateBestPath: compare_exchange_weak succeeds iff best_distance still is current_best
BestCasAlways(w) == TRUE
BestCasSucceeds(w) == best_distance = current_best[w]

\* updateBestPath: the value compare_exchange_weak writes into best_distance
StoredAboveCandidate(candidate) == candidate.distance + 1
StoredDistance(candidate) == candidate.distance

\* shouldPrune: every PruneEvery-th call on a task compares with best_distance
CounterNext(w) == (check_counter[w] + 1) % PruneEvery
shouldPrune(w) == CounterNext(w) = 0 /\ path[w].distance >= best_distance

\* loop of split and solve: the next i >= from with !contains(i) and new_dist < bound
Fits(p, i, bound) == ~contains(p, i) /\ p.distance + graphDistance(tail(p), i) < bound
NextFit(p, from, bound) ==
  LET S == {i \in from..(ncities - 1) : Fits(p, i, bound)}
  IN IF S = {} THEN ncities ELSE CHOOSE i \in S : \A j \in S : i <= j

----------------------------------------------------------------------------
\* ModifiedTSPTask run by ParallelTaskRunner or by DirectTaskRunner.  A step of a thread is
\* one access to shared state (an atomic, the pool, best_path) followed by the statements
\* after it that touch only the thread's own task and locals.

tspIdleVars == <<stackVars, opVars, clientVars, histVars, tree, cur, kid, n, nProc, exitedAt,
                 nthreads, termination_requested, stopVars, indexVars, sortVars, laterVars,
                 graphVars>>
counterVars == <<active_workers, tasks_processed, tasks_created, outstanding_tasks>>

\* the task and the locals of thread w; split_done: a split has returned during the step
Local(w) ==
  [pc |-> pc[w], path |-> path[w], check_counter |-> check_counter[w],
   loop_i |-> loop_i[w], current_best |-> current_best[w], count |-> count[w],
   depth |-> depth[w], split_done |-> FALSE]

\* The thread-local statements from position L.pc up to the next access to shared state:
\*   split: the cutoff test (return 0, then worker_function calls solve());
\*   solve: shouldPrune() when it only counts, then _path.push(FIRST_NODE) for a full path;
\*   solve: the loop up to _path.push(i); solve() or up to its end;
\*   worker_function: delete task after solve() has returned.
RECURSIVE Settle(_)
Settle(L) ==
  LET c == (L.check_counter + 1) % PruneEvery IN
  IF L.pc = "t_split_check" /\ Len(L.path.node) >= cutoff_size
  THEN Settle([L EXCEPT !.pc = "t_solve", !.split_done = TRUE])
  ELSE IF L.pc = "t_solve" /\ c # 0
  THEN IF Len(L.path.node) = ncities
       THEN [L EXCEPT !.pc = "t_tour_check", !.check_counter = c,
                      !.path = PathPush(L.path, FIRST_NODE)]
       ELSE [L EXCEPT !.pc = "t_solve_load", !.check_counter = c]
  ELSE IF L.pc = "t_solve_loop"
  THEN LET i == NextFit(L.path, L.loop_i, L.current_best) IN
       IF i < ncities
       THEN Settle([L EXCEPT !.path = PathPush(L.path, i), !.depth = @ + 1, !.pc = "t_solve"])
       ELSE Settle([L EXCEPT !.pc = "t_return"])
  ELSE IF L.pc = "t_return" /\ L.depth = 0 /\ runner = "parallel"
  THEN [L EXCEPT !.pc = "t_tp_add", !.path = NoPath, !.check_counter = 0,
                 !.loop_i = 0, !.current_best = 0]
  ELSE L

\* thread w continues from L
Commit(w, L) ==
  /\ pc' = [pc EXCEPT ![w] = L.pc]
  /\ path' = [path EXCEPT ![w] = L.path]
  /\ check_counter' = [check_counter EXCEPT ![w] = L.check_counter]
  /\ loop_i' = [loop_i EXCEPT ![w] = L.loop_i]
  /\ current_best' = [current_best EXCEPT ![w] = L.current_best]
  /\ count' = [count EXCEPT ![w] = L.count]
  /\ depth' = [depth EXCEPT ![w] = L.depth]
  /\ split_returned' = (split_returned \/ L.split_done)

\* ParallelTaskRunner::run(tsp_task) up to the spawning of the workers
TspRun ==
  /\ mainpc = "constructed"
  /\ runner' = "parallel"
  /\ tasks_processed' = 0
  /\ outstanding_tasks' = 1
  /\ task_pool' = <<NewPath>>
  /\ tasks_created' = 1
  /\ pc' = [w \in Threads |-> IF w <= nthreads THEN "t_start" ELSE "none"]
  /\ mainpc' = "joining"
  /\ UNCHANGED <<tspIdleVars, active_workers, incumbentVars, taskVars, split_returned>>

\* DirectTaskRunner::run(&seq_task): t->solve() in the calling thread
DirectRun ==
  /\ mainpc = "constructed"
  /\ runner' = "direct"
  /\ Commit(1, Settle([Local(1) EXCEPT !.pc = "t_solve", !.path = NewPath]))
  /\ mainpc' = "solving"
  /\ UNCHANGED <<tspIdleVars, counterVars, incumbentVars, task_pool>>

TspWorkerStart(w) ==
  /\ pc[w] = "t_start"
  /\ active_workers' = active_workers + 1
  /\ pc' = [pc EXCEPT ![w] = "t_loop"]
  /\ UNCHANGED <<tspIdleVars, tasks_processed, tasks_created, outstanding_tasks, mainpc,
                 runner, incumbentVars, task_pool, taskVars, split_returned>>

\* while (!termination_requested) { Task* task = task_pool.pop(); ...
TspWorkerPop(w) ==
  /\ pc[w] = "t_loop"
  /\ IF termination_requested
     THEN /\ pc' = [pc EXCEPT ![w] = "t_exit"]
          /\ UNCHANGED <<task_pool, path>>
     ELSE IF task_pool = <<>>
     THEN /\ pc' = [pc EXCEPT ![w] = "t_idle_out"]
          /\ UNCHANGED <<task_pool, path>>
     ELSE /\ path' = [path EXCEPT ![w] = Head(task_pool)]
          /\ task_pool' = Tail(task_pool)
          /\ pc' = [pc EXCEPT ![w] = "t_split"]
  /\ UNCHANGED <<tspIdleVars, counterVars, mainpc, runner, incumbentVars, check_counter,
                 loop_i, current_best, count, depth, split_returned>>

TspWorkerIdleOutstanding(w) ==
  /\ pc[w] = "t_idle_out"
  /\ pc' = [pc EXCEPT ![w] = IF outstanding_tasks = 0 THEN "t_idle_empty" ELSE "t_loop"]
  /\ UNCHANGED <<tspIdleVars, counterVars, mainpc, runner, incumbentVars, task_pool,
                 taskVars, split_returned>>

TspWorkerIdleEmpty(w) ==
  /\ pc[w] = "t_idle_empty"
  /\ pc' = [pc EXCEPT ![w] = IF task_pool = <<>> THEN "t_exit" ELSE "t_loop"]
  /\ UNCHANGED <<tspIdleVars, counterVars, mainpc, runner, incumbentVars, task_pool,
                 taskVars, split_returned>>

\* split: if (!initial_bound_set.exchange(true)) computeInitialBound();
SplitExchange(w) ==
  /\ pc[w] = "t_split"
  /\ initial_bound_set' = TRUE
  /\ Commit(w, Settle([Local(w) EXCEPT
                         !.pc = IF initial_bound_set THEN "t_split_check" ELSE "t_bound_store"]))
  /\ UNCHANGED <<tspIdleVars, counterVars, mainpc, runner, best_distance, best_path, task_pool>>

\* computeInitialBound: best_distance.store(d)
BoundStore(w) ==
  /\ pc[w] = "t_bound_store"
  /\ best_distance' = BoundStored(NaiveTour.distance)
  /\ pc' = [pc EXCEPT ![w] = "t_bound_path"]
  /\ UNCHANGED <<tspIdleVars, counterVars, mainpc, runner, best_path, initial_bound_set,
                 task_pool, taskVars, split_returned>>

\* computeInitialBound: best_path = p under best_path_mutex
BoundPath(w) ==
  /\ pc[w] = "t_bound_path"
  /\ best_path' = NaiveTour
  /\ Commit(w, Settle([Local(w) EXCEPT !.pc = "t_split_check"]))
  /\ UNCHANGED <<tspIdleVars, counterVars, mainpc, runner, best_distance, initial_bound_set,
                 task_pool>>

\* split below the cutoff: if (shouldPrune()) return 0; current_best = best_distance.load()
SplitCheck(w) ==
  /\ pc[w] = "t_split_check"
  /\ Commit(w, Settle(IF shouldPrune(w)
                      THEN [Local(w) EXCEPT !.check_counter = CounterNext(w),
                                            !.pc = "t_solve", !.split_done = TRUE]
                      ELSE [Local(w) EXCEPT !.check_counter = CounterNext(w),
                                            !.current_best = best_distance,
                                            !.loop_i = 0, !.count = 0, !.pc = "t_split_loop"]))
  /\ UNCHANGED <<tspIdleVars, counterVars, mainpc, runner, incumbentVars, task_pool>>

\* split: the loop up to and including the next collection->push(t), or up to return count
SplitLoop(w) ==
  /\ pc[w] = "t_split_loop"
  /\ LET i == NextFit(path[w], loop_i[w], current_best[w]) IN
       IF i < ncities
       THEN /\ task_pool' = <<PathPush(path[w], i)>> \o task_pool
            /\ Commit(w, [Local(w) EXCEPT !.count = @ + 1, !.loop_i = i + 1])
       ELSE /\ Commit(w, Settle([Local(w) EXCEPT
                                   !.loop_i = ncities, !.split_done = TRUE,
                                   !.pc = IF count[w] > 0 THEN "t_tc_add" ELSE "t_solve"]))
            /\ UNCHANGED task_pool
  /\ UNCHANGED <<tspIdleVars, counterVars, mainpc, runner, incumbentVars>>

TspWorkerCreated(w) ==
  /\ pc[w] = "t_tc_add"
  /\ tasks_created' = tasks_created + count[w]
  /\ pc' = [pc EXCEPT ![w] = "t_out_add"]
  /\ UNCHANGED <<tspIdleVars, active_workers, tasks_processed, outstanding_tasks, mainpc,
                 runner, incumbentVars, task_pool, taskVars, split_returned>>

\* outstanding_tasks.fetch_add(n); delete task
TspWorkerOutstandingAdd(w) ==
  /\ pc[w] = "t_out_add"
  /\ outstanding_tasks' = outstanding_tasks + count[w]
  /\ Commit(w, [Local(w) EXCEPT !.path = NoPath, !.count = 0, !.loop_i = 0,
                                !.current_best = 0, !.check_counter = 0,
                                !.pc = "t_out_sub"])
  /\ UNCHANGED <<tspIdleVars, active_workers, tasks_processed, tasks_created, mainpc,
                 runner, incumbentVars, task_pool>>

\* solve: a call of shouldPrune() that compares _path.distance() with best_distance
SolveEnter(w) ==
  /\ pc[w] = "t_solve"
  /\ Commit(w, Settle(IF shouldPrune(w)
                      THEN [Local(w) EXCEPT !.check_counter = CounterNext(w), !.pc = "t_return"]
                      ELSE IF Len(path[w].node) = ncities
                      THEN [Local(w) EXCEPT !.check_counter = CounterNext(w),
                                            !.path = PathPush(path[w], FIRST_NODE),
                                            !.pc = "t_tour_check"]
                      ELSE [Local(w) EXCEPT !.check_counter = CounterNext(w),
                                            !.pc = "t_solve_load"]))
  /\ UNCHANGED <<tspIdleVars, counterVars, mainpc, runner, incumbentVars, task_pool>>

\* solve: if (_path.distance() < best_distance.load()) updateBestPath(_path); _path.pop()
TourCheck(w) ==
  /\ pc[w] = "t_tour_check"
  /\ Commit(w, Settle(IF path[w].distance < best_distance
                      THEN [Local(w) EXCEPT !.pc = "t_upd_load"]
                      ELSE [Local(w) EXCEPT !.path = PathPop(path[w]), !.pc = "t_return"]))
  /\ UNCHANGED <<tspIdleVars, counterVars, mainpc, runner, incumbentVars, task_pool>>

\* updateBestPath: current_best = best_distance.load() and the first loop test
UpdateLoad(w) ==
  /\ pc[w] = "t_upd_load"
  /\ Commit(w, Settle(IF CandidateBetter(path[w].distance, best_distance)
                      THEN [Local(w) EXCEPT !.current_best = best_distance, !.pc = "t_upd_cas"]
                      ELSE [Local(w) EXCEPT !.current_best = best_distance,
                                            !.path = PathPop(path[w]), !.pc = "t_return"]))
  /\ UNCHANGED <<tspIdleVars, counterVars, mainpc, runner, incumbentVars, task_pool>>

\* updateBestPath: best_distance.compare_exchange_weak(current_best, candidate_dist); a
\* failure reloads current_best and repeats the loop test
UpdateCAS(w) ==
  /\ pc[w] = "t_upd_cas"
  /\ IF BestCasSucceeds(w)
     THEN /\ best_distance' = StoredDistance(path[w])
          /\ Commit(w, [Local(w) EXCEPT !.pc = "t_upd_path"])
     ELSE /\ Commit(w, Settle(IF CandidateBetter(path[w].distance, best_distance)
                              THEN [Local(w) EXCEPT !.current_best = best_distance]
                              ELSE [Local(w) EXCEPT !.current_best = best_distance,
                                                    !.path = PathPop(path[w]),
                                                    !.pc = "t_return"]))
          /\ UNCHANGED best_distance
  /\ UNCHANGED <<tspIdleVars, counterVars, mainpc, runner, best_path, initial_bound_set,
                 task_pool>>

\* updateBestPath: best_path = candidate under best_path_mutex; then solve's _path.pop()
UpdatePath(w) ==
  /\ pc[w] = "t_upd_path"
  /\ best_path' = path[w]
  /\ Commit(w, Settle([Local(w) EXCEPT !.path = PathPop(path[w]), !.pc = "t_return"]))
  /\ UNCHANGED <<tspIdleVars, counterVars, mainpc, runner, best_distance, initial_bound_set,
                 task_pool>>

\* solve: int current_best = best_distance.load(); i = 0
SolveLoad(w) ==
  /\ pc[w] = "t_solve_load"
  /\ Commit(w, Settle([Local(w) EXCEPT !.current_best = best_distance, !.loop_i = 0,
                                       !.pc = "t_solve_loop"]))
  /\ UNCHANGED <<tspIdleVars, counterVars, mainpc, runner, incumbentVars, task_pool>>

\* return of solve() to the calling solve: _path.pop(); current_best = best_distance.load();
\* the loop goes on with the next i
SolveReturn(w) ==
  /\ pc[w] = "t_return"
  /\ depth[w] > 0
  /\ Commit(w, Settle([Local(w) EXCEPT !.path = PathPop(path[w]),
                                       !.current_best = best_distance,
                                       !.loop_i = tail(path[w]) + 1,
                                       !.depth = @ - 1,
                                       !.pc = "t_solve_loop"]))
  /\ UNCHANGED <<tspIdleVars, counterVars, mainpc, runner, incumbentVars, task_pool>>

\* return of solve() to DirectTaskRunner::run, which returns to main
DirectReturn ==
  /\ pc[1] = "t_return"
  /\ depth[1] = 0
  /\ runner = "direct"
  /\ Commit(1, [Local(1) EXCEPT !.pc = "none", !.check_counter = 0, !.loop_i = 0,
                                !.current_best = 0])
  /\ mainpc' = "returned"
  /\ UNCHANGED <<tspIdleVars, counterVars, runner, incumbentVars, task_pool>>

TspWorkerProcessed(w) ==
  /\ pc[w] = "t_tp_add"
  /\ tasks_processed' = tasks_processed + 1
  /\ pc' = [pc EXCEPT ![w] = "t_out_sub"]
  /\ UNCHANGED <<tspIdleVars, active_workers, tasks_created, outstanding_tasks, mainpc,
                 runner, incumbentVars, task_pool, taskVars, split_returned>>

TspWorkerOutstandingSub(w) ==
  /\ pc[w] = "t_out_sub"
  /\ outstanding_tasks' = outstanding_tasks - 1
  /\ pc' = [pc EXCEPT ![w] = "t_loop"]
  /\ UNCHANGED <<tspIdleVars, active_workers, tasks_processed, tasks_created, mainpc,
                 runner, incumbentVars, task_pool, taskVars, split_returned>>

TspWorkerExit(w) ==
  /\ pc[w] = "t_exit"
  /\ active_workers' = active_workers - 1
  /\ pc' = [pc EXCEPT ![w] = "t_done"]
  /\ UNCHANGED <<tspIdleVars, tasks_processed, tasks_created, outstanding_tasks, mainpc,
                 runner, incumbentVars, task_pool, taskVars, split_returned>>

\* ParallelTaskRunner::run: join of all workers, return
TspJoin ==
  /\ mainpc = "joining"
  /\ \A w \in Threads : w <= nthreads => pc[w] = "t_done"
  /\ pc' = [w \in Threads |-> "none"]
  /\ mainpc' = "returned"
  /\ UNCHANGED <<tspIdleVars, counterVars, runner, incumbentVars, task_pool, taskVars,
                 split_returned>>

TspThread(w) ==
  \/ TspWorkerStart(w) \/ TspWorkerPop(w) \/ TspWorkerIdleOutstanding(w)
  \/ TspWorkerIdleEmpty(w) \/ SplitExchange(w) \/ BoundStore(w) \/ BoundPath(w)
  \/ SplitCheck(w) \/ SplitLoop(w) \/ TspWorkerCreated(w) \/ TspWorkerOutstandingAdd(w)
  \/ SolveEnter(w) \/ TourCheck(w) \/ UpdateLoad(w) \/ UpdateCAS(w) \/ UpdatePath(w)
  \/ SolveLoad(w) \/ SolveReturn(w) \/ TspWorkerProcessed(w)
  \/ TspWorkerOutstandingSub(w) \/ TspWorkerExit(w)

TspNext ==
  \/ TspRun
  \/ DirectRun
  \/ \E w \in Threads : TspThread(w)
  \/ DirectReturn
  \/ TspJoin

\* state after TSPPath::setup(&graph), new ModifiedTSPTask(cutoff) and the construction of
\* the runner: best_distance = INT_MAX, best_path maximised, _cutoff_size = full() - cutoff;
\* the cutoff is drawn so that tasks are split up to path length MaxTaskSize
TspInit ==
  /\ RunnerInit /\ StopIdle /\ IndexIdle /\ SortIdle /\ LaterIdle
  /\ ncities \in 1..MaxCities
  /\ dist \in Graphs(ncities)
  /\ \E cutoff \in 0..(ncities - 1) : cutoff_size = ncities - cutoff /\ cutoff_size <= MaxTaskSize
  /\ runner = "none"
  /\ best_distance = INT_MAX
  /\ best_path = maximise(NewPath)
  /\ initial_bound_set = FALSE
  /\ task_pool = <<>>
  /\ TaskIdle
  /\ split_returned = FALSE

SpecTSP == TspInit /\ [][TspNext]_vars

----------------------------------------------------------------------------
\* TSPPath::setup and ModifiedTSPTask::computeInitialBound for every graph size up to and
\* one beyond MAX_GRAPH.  A path is the sequence of the values written to _node[0],
\* _node[1], ...; _node has MAX_GRAPH elements, so an element beyond that was written
\* outside the array and what the program does afterwards is not followed.

\* a graph of N cities with every distance between two different cities equal to MaxDist
UniformGraph(N) ==
  [e \in (0..(N - 1)) \X (0..(N - 1)) |-> IF e[1] = e[2] THEN 0 ELSE MaxDist]

pathIdleVars == <<stackVars, opVars, pc, nthreads, termination_requested, active_workers,
                  tasks_processed, tasks_created, outstanding_tasks, tree, cur, kid, n, nProc,
                  exitedAt, clientVars, histVars, stopVars, indexVars, sortVars, laterVars,
                  graphVars, runner, incumbentVars, task_pool, check_counter, current_best,
                  count, depth, split_returned>>

\* TSPPath::setup: if (_graph->size() > MAX_GRAPH) throw
SetupThrows ==
  /\ mainpc = "constructed"
  /\ ncities > MAX_GRAPH
  /\ mainpc' = "threw"
  /\ UNCHANGED <<pathIdleVars, path, loop_i>>

\* setup accepts the graph; computeInitialBound: TSPPath p; i = 1
SetupAccepts ==
  /\ mainpc = "constructed"
  /\ ncities <= MAX_GRAPH
  /\ path' = [path EXCEPT ![1] = NewPath]
  /\ loop_i' = [loop_i EXCEPT ![1] = 1]
  /\ mainpc' = "bound_loop"
  /\ UNCHANGED pathIdleVars

\* computeInitialBound: for (i = 1; i < full(); ++i) p.push(i)
BoundPushCity ==
  /\ mainpc = "bound_loop"
  /\ loop_i[1] < ncities
  /\ path' = [path EXCEPT ![1] = PathPush(path[1], loop_i[1])]
  /\ loop_i' = [loop_i EXCEPT ![1] = @ + 1]
  /\ UNCHANGED <<pathIdleVars, mainpc>>

\* computeInitialBound: p.push(FIRST_NODE)
BoundPushFirst ==
  /\ mainpc = "bound_loop"
  /\ loop_i[1] >= ncities
  /\ path' = [path EXCEPT ![1] = PathPush(path[1], FIRST_NODE)]
  /\ mainpc' = IF Len(path[1].node) < MAX_GRAPH THEN "bound_closed" ELSE "undefined"
  /\ UNCHANGED <<pathIdleVars, loop_i>>

PathNext == SetupThrows \/ SetupAccepts \/ BoundPushCity \/ BoundPushFirst

PathInit ==
  /\ RunnerInit /\ StopIdle /\ IndexIdle /\ SortIdle /\ LaterIdle
  /\ ncities \in 1..(MAX_GRAPH + 1)
  /\ dist = UniformGraph(ncities)
  /\ cutoff_size = ncities
  /\ runner = "none"
  /\ best_distance = INT_MAX
  /\ best_path = maximise(NewPath)
  /\ initial_bound_set = FALSE
  /\ task_pool = <<>>
  /\ TaskIdle
  /\ split_returned = FALSE

SpecPath == PathInit /\ [][PathNext]_vars

----------------------------------------------------------------------------
\* LockFreeStack::operator[] called by the clients of the stack

\* operator[](int): throw std::runtime_error, for every index
IndexReturns(i) == FALSE
IndexThrows(i) == TRUE

\* a client calls task_pool[i] and catches what it throws
ClientIndex(t, i) ==
  /\ pc[t] = "c_idle"
  /\ ops < MaxOps
  /\ ops' = ops + 1
  /\ index_calls' = index_calls + 1
  /\ index_errors' = IF IndexThrows(i) THEN index_errors + 1 ELSE index_errors
  /\ UNCHANGED <<stackVars, opVars, pc, nthreads, runVars, out, histVars, stopVars,
                 tspVars, sortVars, laterVars>>

IndexNext ==
  \/ StackNext
  \/ \E t \in Threads, i \in (0 - 1)..MaxAddr : ClientIndex(t, i)

SpecIndex == StackInit /\ [][IndexNext]_vars

----------------------------------------------------------------------------
\* LockFreeStack::clear called by the clients of the stack

\* clear(): enters the loop while ((t = pop()) != nullptr)
ClientClear(t) ==
  /\ pc[t] = "c_idle"
  /\ ops < MaxOps
  /\ ops' = ops + 1
  /\ clearing' = [clearing EXCEPT ![t] = TRUE]
  /\ pc' = [pc EXCEPT ![t] = "pop_load"]
  /\ UNCHANGED <<stackVars, opVars, nthreads, runVars, out, histVars, stopVars, indexVars,
                 tspVars, sortVars, partVars, seqVars>>

\* pop() has returned t inside clear: delete t and pop again, or leave the loop on nullptr
ClearPopReturn(t) ==
  /\ pc[t] = "pop_ret"
  /\ clearing[t]
  /\ pc' = [pc EXCEPT ![t] = IF ret[t] # 0 THEN "pop_load" ELSE "clear_size"]
  /\ ret' = [ret EXCEPT ![t] = 0]
  /\ expect' = [expect EXCEPT ![t] = 0]
  /\ UNCHANGED <<stackVars, old_head, next_ptr, node, nthreads, otherVars, runVars, clientVars,
                 nPushed, nPopped, stale, aba, lifo>>

\* size_counter.store(0)
ClearSize(t) ==
  /\ pc[t] = "clear_size"
  /\ size_counter' = 0
  /\ pc' = [pc EXCEPT ![t] = "clear_head"]
  /\ UNCHANGED <<head, mem, opVars, nthreads, otherVars, runVars, clientVars, histVars>>

\* head.store(pack(nullptr, 0)); clear returns
ClearHead(t) ==
  /\ pc[t] = "clear_head"
  /\ head' = pack(nullptr, 0)
  /\ lifo' = <<>>
  /\ stale' = Staled(t)
  /\ clearing' = [clearing EXCEPT ![t] = FALSE]
  /\ pc' = [pc EXCEPT ![t] = "c_idle"]
  /\ UNCHANGED <<mem, size_counter, opVars, nthreads, runVars, clientVars, nPushed, nPopped,
                 aba, expect, stopVars, indexVars, tspVars, sortVars, partVars, seqVars>>

ClearNext ==
  \/ StackNext
  \/ \E t \in Threads : ClientClear(t) \/ ClearPopReturn(t) \/ ClearSize(t) \/ ClearHead(t)

SpecClear == StackInit /\ [][ClearNext]_vars

----------------------------------------------------------------------------
\* IntVecSortTask under DirectTaskRunner and PartitionedTaskStackRunner

\* std::sort on a vector of int: the sorted permutation, computed here by insertion
RECURSIVE Insert(_, _)
Insert(x, s) ==
  IF s = <<>> THEN <<x>>
  ELSE IF x <= Head(s) THEN <<x>> \o s
  ELSE <<Head(s)>> \o Insert(x, Tail(s))

RECURSIVE StdSort(_)
StdSort(v) == IF v = <<>> THEN <<>> ELSE Insert(Head(v), StdSort(Tail(v)))

\* std::merge: an element of the second range is taken only if it is less than the
\* current element of the first
RECURSIVE StdMerge(_, _)
StdMerge(l, r) ==
  IF l = <<>> THEN r
  ELSE IF r = <<>> THEN l
  ELSE IF Head(r) < Head(l) THEN <<Head(r)>> \o StdMerge(l, Tail(r))
  ELSE <<Head(l)>> \o StdMerge(Tail(l), r)

\* IntVecSortTask::split: right(_vec.begin() + mid, _vec.end())
RightWithoutFirst(v, mid) == SubSeq(v, mid + 2, Len(v))
RightHalf(v, mid) == SubSeq(v, mid + 1, Len(v))

\* IntVecSortTask::split for size > 1: the collection after the two pushes
SortSplit(v) ==
  LET mid == Len(v) \div 2 IN <<SubSeq(v, 1, mid), RightHalf(v, mid)>>

\* IntVecSortTask::merge: _vec = merge of coll[0]->_vec and coll[1]->_vec
SortMerge(coll) == StdMerge(coll[1], coll[2])

\* IntVecSortTask::solve
SortSolve(v) == StdSort(v)

\* PartitionedTaskStackRunner::recurse(t): the _vec of t when it returns
RECURSIVE recurse(_)
recurse(v) ==
  IF Len(v) <= 1
  THEN SortSolve(v)
  ELSE LET coll == SortSplit(v) IN SortMerge(<<recurse(coll[1]), recurse(coll[2])>>)

sortIdleVars == <<stackVars, opVars, pc, nthreads, runVars, clientVars, histVars, stopVars,
                  indexVars, tspVars, laterVars, input>>

\* DirectTaskRunner sr; sr.run(&iv1)
SortDirect ==
  /\ sortpc = "constructed"
  /\ iv1' = SortSolve(iv1)
  /\ sortpc' = "direct_done"
  /\ UNCHANGED <<sortIdleVars, iv2>>

\* PartitionedTaskStackRunner rr(2); rr.run(&iv2)
SortPartitioned ==
  /\ sortpc = "direct_done"
  /\ iv2' = recurse(iv2)
  /\ sortpc' = "done"
  /\ UNCHANGED <<sortIdleVars, iv1>>

SortNext == SortDirect \/ SortPartitioned

\* the vectors of at most MaxLen elements in 0..MaxVal
Vectors == UNION {[1..k -> 0..MaxVal] : k \in 0..MaxLen}

\* main: iv1 holds the input vector, iv2 = iv1
SortInit ==
  /\ RunnerInit /\ StopIdle /\ IndexIdle /\ TspIdle /\ LaterIdle
  /\ input \in Vectors
  /\ iv1 = input
  /\ iv2 = input
  /\ sortpc = "constructed"

SpecSort == SortInit /\ [][SortNext]_vars

----------------------------------------------------------------------------
\* PartitionedTaskStackRunner::recurse over IntVecSortTask, TSPTask and ModifiedTSPTask.
\* A task is a record holding the members of its class; a collection is the sequence
\* _tab of a TaskStack; frames is the stack of the calls of recurse in progress, each with
\* its task t, its local collection coll, n, i and its position ph.  A task is named by
\* id, the indices of the children that lead to it from the root.  TSPTask::alloc builds
\* the same task whether it reuses an object of _free_list or not; _free_list is left out.

SortTask(v) == [type |-> "sort", vec |-> v, path |-> NoPath, counter |-> 0]
TspTask(p) == [type |-> "tsp", vec |-> <<>>, path |-> p, counter |-> 0]
MTspTask(p) == [type |-> "mtsp", vec |-> <<>>, path |-> p, counter |-> 0]

\* TSPTask::split: the tasks pushed, for i = 0 .. full() - 1 with !_path.contains(i)
RECURSIVE TspChildren(_, _)
TspChildren(p, i) ==
  IF i >= ncities THEN <<>>
  ELSE (IF contains(p, i) THEN <<>> ELSE <<TspTask(PathPush(p, i))>>) \o TspChildren(p, i + 1)

\* TSPTask::split: collection->clear() comes first
TspSplit(t, coll) ==
  IF Len(t.path.node) >= cutoff_size
  THEN [n |-> 0, coll |-> <<>>, t |-> t]
  ELSE LET k == TspChildren(t.path, 0) IN [n |-> Len(k), coll |-> k, t |-> t]

\* IntVecSortTask::split
SortSplitInto(t, coll) ==
  IF Len(t.vec) <= 1
  THEN [n |-> 0, coll |-> coll, t |-> t]
  ELSE LET h == SortSplit(t.vec)
       IN [n |-> 2, coll |-> coll \o <<SortTask(h[1]), SortTask(h[2])>>, t |-> t]

\* ModifiedTSPTask::split: the tasks pushed, for the i with new_dist < current_best
RECURSIVE MTspChildren(_, _, _)
MTspChildren(p, i, bound) ==
  IF i >= ncities THEN <<>>
  ELSE (IF Fits(p, i, bound) THEN <<MTspTask(PathPush(p, i))>> ELSE <<>>)
       \o MTspChildren(p, i + 1, bound)

\* best_distance once split has made sure that the initial bound exists
BoundEnsured == IF initial_bound_set THEN best_distance ELSE BoundStored(NaiveTour.distance)

\* ModifiedTSPTask::split, run by one thread
MTspSplit(t, coll) ==
  LET c == (t.counter + 1) % PruneEvery IN
  IF Len(t.path.node) >= cutoff_size
  THEN [n |-> 0, coll |-> coll, t |-> t]
  ELSE IF c = 0 /\ t.path.distance >= BoundEnsured
  THEN [n |-> 0, coll |-> coll, t |-> [t EXCEPT !.counter = c]]
  ELSE LET k == MTspChildren(t.path, 0, BoundEnsured)
       IN [n |-> Len(k), coll |-> coll \o k, t |-> [t EXCEPT !.counter = c]]

\* t->split(&coll): the value returned, the collection and the task afterwards
SplitResult(t, coll) ==
  CASE t.type = "sort" -> SortSplitInto(t, coll)
    [] t.type = "tsp" -> TspSplit(t, coll)
    [] t.type = "mtsp" -> MTspSplit(t, coll)

\* TSPTask::merge: for (p = 0; p < collection->size(); p++) collection->pop()
RECURSIVE TspMergeLoop(_, _)
TspMergeLoop(coll, p) ==
  IF p < Len(coll) THEN TspMergeLoop(SubSeq(coll, 1, Len(coll) - 1), p + 1) ELSE coll

\* t->merge(&coll): the collection and the task afterwards.  IntVecSortTask::merge is
\* only called on the two tasks its split pushed; ModifiedTSPTask::merge has an empty body
MergeResult(t, coll) ==
  CASE t.type = "sort" ->
         [coll |-> <<>>, t |-> [t EXCEPT !.vec = SortMerge(<<coll[1].vec, coll[2].vec>>)]]
    [] t.type = "tsp" -> [coll |-> TspMergeLoop(coll, 0), t |-> t]
    [] t.type = "mtsp" -> [coll |-> coll, t |-> t]

\* TSPTask::solve: _shortest afterwards
RECURSIVE TspSolve(_, _)
RECURSIVE TspSolveLoop(_, _, _)
TspSolve(p, s) ==
  IF Len(p.node) = ncities
  THEN LET q == PathPush(p, FIRST_NODE) IN IF q.distance < s.distance THEN q ELSE s
  ELSE TspSolveLoop(p, 0, s)

TspSolveLoop(p, i, s) ==
  IF i >= ncities THEN s
  ELSE IF contains(p, i) THEN TspSolveLoop(p, i + 1, s)
  ELSE LET q == PathPush(p, i)
       IN TspSolveLoop(p, i + 1, IF q.distance < s.distance THEN TspSolve(q, s) ELSE s)

\* ModifiedTSPTask::solve, run by one thread: _local_best_check_counter (c), best_distance
\* (d) and best_path (bp) afterwards
RECURSIVE MTspSolve(_, _, _, _)
RECURSIVE MTspSolveLoop(_, _, _, _, _, _)
MTspSolve(p, c, d, bp) ==
  LET c1 == (c + 1) % PruneEvery IN
  IF c1 = 0 /\ p.distance >= d THEN [c |-> c1, d |-> d, bp |-> bp]
  ELSE IF Len(p.node) = ncities
  THEN LET q == PathPush(p, FIRST_NODE)
       IN IF q.distance < d THEN [c |-> c1, d |-> StoredDistance(q), bp |-> q]
          ELSE [c |-> c1, d |-> d, bp |-> bp]
  ELSE MTspSolveLoop(p, 0, c1, d, bp, d)

MTspSolveLoop(p, i, c, d, bp, cb) ==
  IF i >= ncities THEN [c |-> c, d |-> d, bp |-> bp]
  ELSE IF Fits(p, i, cb)
  THEN LET r == MTspSolve(PathPush(p, i), c, d, bp)
       IN MTspSolveLoop(p, i + 1, r.c, r.d, r.bp, r.d)
  ELSE MTspSolveLoop(p, i + 1, c, d, bp, cb)

Top == frames[Len(frames)]
SetTop(f) == [frames EXCEPT ![Len(frames)] = f]
NewFrame(id, t, coll) == [id |-> id, t |-> t, coll |-> coll, n |-> 0, i |-> 0, ph |-> "enter"]

partIdleVars == <<stackVars, opVars, pc, nthreads, runVars, clientVars, histVars, stopVars,
                  indexVars, sortVars, clearVars, seqVars, graphVars, runner, task_pool,
                  taskVars, split_returned>>

\* recurse: int n = t->split(&coll)
RecurseSplit ==
  /\ frames # <<>>
  /\ Top.ph = "enter"
  /\ LET r == SplitResult(Top.t, Top.coll) IN
       /\ frames' = SetTop([Top EXCEPT !.t = r.t, !.coll = r.coll, !.n = r.n,
                                       !.ph = IF r.n # 0 THEN "loop" ELSE "solve"])
       /\ events' = Append(events, <<"split", Top.id, r.n>>)
  /\ IF Top.t.type = "mtsp" /\ ~initial_bound_set
     THEN /\ best_distance' = BoundStored(NaiveTour.distance)
          /\ best_path' = NaiveTour
          /\ initial_bound_set' = TRUE
     ELSE UNCHANGED incumbentVars
  /\ UNCHANGED <<partIdleVars, shortest>>

\* the child that follows child i in for (i = 0; i < n; i++)
ChildAfterNext(i) == i + 2
ChildAfter(i) == i + 1

\* recurse: recurse(coll[i])
RecurseChild ==
  /\ frames # <<>>
  /\ Top.ph = "loop"
  /\ Top.i < Top.n
  /\ frames' = Append(frames, NewFrame(Append(Top.id, Top.i), Top.coll[Top.i + 1], <<>>))
  /\ UNCHANGED <<partIdleVars, incumbentVars, events, shortest>>

\* recurse: t->merge(&coll) after the loop
RecurseMerge ==
  /\ frames # <<>>
  /\ Top.ph = "loop"
  /\ Top.i >= Top.n
  /\ LET r == MergeResult(Top.t, Top.coll) IN
       frames' = SetTop([Top EXCEPT !.t = r.t, !.coll = r.coll, !.ph = "merged"])
  /\ events' = Append(events, <<"merge", Top.id>>)
  /\ UNCHANGED <<partIdleVars, incumbentVars, shortest>>

\* recurse: t->solve() when split returned 0
RecurseSolve ==
  /\ frames # <<>>
  /\ Top.ph = "solve"
  /\ events' = Append(events, <<"solve", Top.id>>)
  /\ CASE Top.t.type = "sort" ->
            /\ frames' = SetTop([Top EXCEPT !.t.vec = SortSolve(@), !.ph = "solved"])
            /\ UNCHANGED <<incumbentVars, shortest>>
       [] Top.t.type = "tsp" ->
            /\ frames' = SetTop([Top EXCEPT !.ph = "solved"])
            /\ shortest' = TspSolve(Top.t.path, shortest)
            /\ UNCHANGED incumbentVars
       [] Top.t.type = "mtsp" ->
            LET r == MTspSolve(Top.t.path, Top.t.counter, best_distance, best_path) IN
            /\ frames' = SetTop([Top EXCEPT !.t.counter = r.c, !.ph = "solved"])
            /\ best_distance' = r.d
            /\ best_path' = r.bp
            /\ UNCHANGED <<initial_bound_set, shortest>>
  /\ UNCHANGED partIdleVars

\* recurse returns: to the loop of the caller, which goes on to its next child, or to run
RecurseReturn ==
  /\ frames # <<>>
  /\ Top.ph \in {"merged", "solved"}
  /\ IF Len(frames) > 1
     THEN LET caller == frames[Len(frames) - 1] IN
          frames' = [SubSeq(frames, 1, Len(frames) - 1) EXCEPT
                       ![Len(frames) - 1] = [caller EXCEPT !.coll[caller.i + 1] = Top.t,
                                                            !.i = ChildAfter(caller.i)]]
     ELSE frames' = SetTop([Top EXCEPT !.ph = "done"])
  /\ UNCHANGED <<partIdleVars, incumbentVars, events, shortest>>

PartNext == RecurseSplit \/ RecurseChild \/ RecurseMerge \/ RecurseSolve \/ RecurseReturn

\* no graph is set up when the task is an IntVecSortTask
SortOnly ==
  /\ dist = <<>>
  /\ ncities = 0
  /\ cutoff_size = INT_MAX
  /\ best_distance = INT_MAX
  /\ best_path = NewPath
  /\ shortest = NewPath

\* TSPPath::setup(&graph); TSPTask(cutoff) or ModifiedTSPTask(cutoff)
GraphSetup ==
  /\ ncities \in 1..MaxCities
  /\ dist \in Graphs(ncities)
  /\ \E cutoff \in 0..(ncities - 1) : cutoff_size = ncities - cutoff
  /\ best_distance = INT_MAX
  /\ best_path = maximise(NewPath)
  /\ shortest = maximise(NewPath)

\* the tasks handed to run: IntVecSortTask(v), TSPTask(cutoff), ModifiedTSPTask(cutoff)
RootTasks ==
  IF ncities = 0
  THEN {SortTask(v) : v \in Vectors}
  ELSE {TspTask(NewPath), MTspTask(NewPath)}

PartStart ==
  /\ RunnerInit /\ StopIdle /\ IndexIdle /\ SortIdle /\ ClearIdle /\ SeqIdle
  /\ SortOnly \/ GraphSetup
  /\ runner = "none"
  /\ initial_bound_set = FALSE
  /\ task_pool = <<>>
  /\ TaskIdle
  /\ split_returned = FALSE
  /\ events = <<>>

\* PartitionedTaskStackRunner::run(t): recurse(t) with TaskStack coll(_size), empty
PartInit ==
  /\ PartStart
  /\ \E t \in RootTasks : frames = <<NewFrame(<<>>, t, <<>>)>>

SpecPart == PartInit /\ [][PartNext]_vars

\* split called on a collection that already holds tasks, as ParallelTaskRunner calls it
\* on the shared pool: the collection holds up to MaxTasks tasks like t
SplitInit ==
  /\ PartStart
  /\ \E t \in RootTasks, k \in 0..MaxTasks :
       frames = <<NewFrame(<<>>, t, [j \in 1..k |-> t])>>

SpecSplit == SplitInit /\ [][RecurseSplit]_vars

----------------------------------------------------------------------------
\* FixedTaskStack and TaskStack used by one caller, which makes at most MaxOps calls.
\* ftab is the caller-provided storage of fcapacity entries, whose content is arbitrary
\* when the stack is constructed; ttab is the vector of the TaskStack.

\* FixedTaskStack::push: if (_size >= _capacity) throw
FixedNeverFull == FALSE
FixedFull == fsize >= fcapacity

seqIdleVars == <<stackVars, pc, old_head, next_ptr, node, nthreads, runVars, out, histVars,
                 stopVars, indexVars, tspVars, sortVars, clearVars, partVars, fcapacity>>

\* FixedTaskStack::push(x)
FixedPush(x) ==
  /\ ops < MaxOps
  /\ ops' = ops + 1
  /\ IF FixedFull
     THEN /\ thrown' = "FixedTaskStack full!"
          /\ UNCHANGED <<ftab, fsize>>
     ELSE /\ ftab' = [ftab EXCEPT ![fsize + 1] = x]
          /\ fsize' = fsize + 1
          /\ thrown' = "none"
  /\ UNCHANGED <<seqIdleVars, ret, ttab>>

\* FixedTaskStack::pop
FixedPop ==
  /\ ops < MaxOps
  /\ ops' = ops + 1
  /\ IF fsize <= 0
     THEN /\ thrown' = "FixedTaskStack empty!"
          /\ UNCHANGED <<fsize, ret>>
     ELSE /\ fsize' = fsize - 1
          /\ ret' = [ret EXCEPT ![1] = ftab[fsize]]
          /\ thrown' = "none"
  /\ UNCHANGED <<seqIdleVars, ftab, ttab>>

\* TaskStack::push(x)
StackPush(x) ==
  /\ ops < MaxOps
  /\ ops' = ops + 1
  /\ ttab' = Append(ttab, x)
  /\ thrown' = "none"
  /\ UNCHANGED <<seqIdleVars, ret, ftab, fsize>>

\* TaskStack::pop
StackPop ==
  /\ ops < MaxOps
  /\ ops' = ops + 1
  /\ IF Len(ttab) <= 0
     THEN /\ thrown' = "TaskStack empty!"
          /\ UNCHANGED <<ttab, ret>>
     ELSE /\ ret' = [ret EXCEPT ![1] = ttab[Len(ttab)]]
          /\ ttab' = SubSeq(ttab, 1, Len(ttab) - 1)
          /\ thrown' = "none"
  /\ UNCHANGED <<seqIdleVars, ftab, fsize>>

SeqNext ==
  \/ \E x \in Tasks : FixedPush(x)
  \/ FixedPop
  \/ \E x \in Tasks : StackPush(x)
  \/ StackPop

\* FixedTaskStack(tab, cap) and TaskStack(cap), just constructed
SeqInit ==
  /\ RunnerInit /\ StopIdle /\ IndexIdle /\ TspIdle /\ SortIdle /\ ClearIdle /\ PartIdle
  /\ fcapacity \in 0..MaxTasks
  /\ ftab \in [1..fcapacity -> 0..MaxTasks]
  /\ fsize = 0
  /\ ttab = <<>>
  /\ thrown = "none"

SpecSeq == SeqInit /\ [][SeqNext]_vars

----------------------------------------------------------------------------
\* Properties of ParallelTaskRunner::run (Spec, FairSpec)

HeldTask(w) ==
  IF cur[w] # 0 THEN cur[w]
  ELSE IF pc[w] \in {"pop_dec", "pop_ret"} THEN ret[w] ELSE 0

\* a task is retired once the fetch_sub that follows its processing is done
Retired ==
  /\ \A x \in TaskSet : nProc[x] = 1
  /\ \A w \in Threads : pc[w] \notin {"tp_add", "out_sub"}

\* C1: every task that enters the pool is pushed once, popped by exactly one worker, held
\* by at most one worker at any time, and split or solved exactly once before run returns.
C1_EachTaskOnce ==
  /\ \A w1, w2 \in Threads : (w1 # w2 /\ HeldTask(w1) # 0) => HeldTask(w1) # HeldTask(w2)
  /\ \A x \in Tasks : nPushed[x] <= 1 /\ nPopped[x] <= nPushed[x] /\ nProc[x] <= nPopped[x]
  /\ \A x \in Tasks \ TaskSet : nPushed[x] = 0
  /\ mainpc = "returned" => \A x \in TaskSet : nPushed[x] = 1 /\ nPopped[x] = 1 /\ nProc[x] = 1

C1_Witness ==
  /\ mainpc = "returned"
  /\ nthreads >= 2
  /\ Cardinality(TaskSet) >= 2
  /\ \A x \in TaskSet : nProc[x] = 1

\* C2 as stated: after run returns tasks_processed = M and tasks_created = M + S + 1,
\* M the number of leaves and S the number of tasks whose split returns n > 0.
C2_CountersAsStated ==
  mainpc = "returned" =>
    /\ tasks_processed = Cardinality(Leaves)
    /\ tasks_created = Cardinality(Leaves) + Cardinality(Splits) + 1

\* C2 amended: after run returns tasks_processed = M and tasks_created = M + S, the
\* number of tasks of the tree, root included.
C2_Counters ==
  mainpc = "returned" =>
    /\ tasks_processed = Cardinality(Leaves)
    /\ tasks_created = Cardinality(Leaves) + Cardinality(Splits)

C2_Witness ==
  /\ mainpc = "returned"
  /\ Cardinality(Splits) >= 1
  /\ tasks_created = Cardinality(TaskSet)

\* C3: under fair scheduling of the workers a run that was started eventually returns:
\* every worker has left its loop and has been joined.
C3_RunReturns == (mainpc = "joining") ~> (mainpc = "returned" /\ \A w \in Threads : pc[w] = "none")

C3_Witness ==
  /\ mainpc = "returned"
  /\ nthreads >= 2
  /\ \A w \in Threads : pc[w] = "none" /\ (w <= nthreads => exitedAt[w] # "none")

\* C4: when run returns the pool is empty, no worker is alive and outstanding_tasks = 0.
C4_QuiescentAtReturn ==
  mainpc = "returned" =>
    /\ PoolEmpty
    /\ Resident = <<>>
    /\ \A a \in Addr : ~mem[a].alloc
    /\ active_workers = 0
    /\ outstanding_tasks = 0
    /\ \A w \in Threads : pc[w] = "none"

C4_Witness ==
  /\ mainpc = "returned"
  /\ nthreads >= 2
  /\ tasks_created >= 2
  /\ active_workers = 0

\* C5: at every state of a run, outstanding_tasks = 0 implies that the pool is empty and
\* that no worker holds a task.
C5_ZeroMeansQuiescent ==
  outstanding_tasks = 0 => (PoolEmpty /\ \A w \in Threads : ~Holds(w))

\* C6: a worker takes the quiescence exit only when no task is in the pool and no other
\* worker holds a task or is still going to push children.
C6_ExitOnlyWhenQuiescent == \A w \in Threads : exitedAt[w] # "busy"

\* C7: during a run outstanding_tasks is strictly positive until the decrement that
\* follows the processing of the last task, and 0 from then on.
C7_ZeroExactlyOnce ==
  mainpc = "joining" =>
    IF Retired THEN outstanding_tasks = 0 ELSE outstanding_tasks > 0

----------------------------------------------------------------------------
\* Properties of LockFreeStack (SpecStack, SpecWrap)

\* C8: for every task, the pushes linearised so far equal the pops that returned it plus
\* its occurrences among the nodes reachable from head; no task is returned twice.
C8_PushedEqPoppedPlusResident ==
  \A x \in Tasks : /\ nPushed[x] = nPopped[x] + Count(Resident, x)
                   /\ Count(Resident, x) <= 1

\* C9: a compare_exchange on head succeeds only if head was not modified between the
\* operation's load of head and that compare_exchange.
C9_NoSpuriousCAS == ~aba

\* C10: run by a single thread the stack is a sequence-based LIFO stack: the nodes
\* reachable from head are the abstract sequence, pop returns its first element, and
\* returns nullptr exactly when the sequence is empty, leaving it empty.
C10_SequentialLIFO ==
  nthreads = 1 =>
    /\ Resident = lifo
    /\ size_counter >= 0
    /\ pc[1] = "pop_ret" => /\ ret[1] = expect[1]
                            /\ (ret[1] = nullptr => lifo = <<>> /\ PoolEmpty)

C10_Witness ==
  /\ nthreads = 1
  /\ pc[1] = "pop_ret"
  /\ ret[1] # nullptr
  /\ ret[1] = expect[1]
  /\ Len(lifo) >= 1
  /\ nPushed[ret[1]] = 1

----------------------------------------------------------------------------
\* Properties of ModifiedTSPTask (SpecTSP)

Cities == 0..(ncities - 1)

RECURSIVE SumEdges(_)
SumEdges(s) == IF Len(s) < 2 THEN 0 ELSE graphDistance(s[1], s[2]) + SumEdges(Tail(s))

\* the tours that start and end at city 0 and visit every city once
Tours ==
  { s \in [1..(ncities + 1) -> Cities] :
      /\ s[1] = FIRST_NODE
      /\ s[ncities + 1] = FIRST_NODE
      /\ \A c \in Cities : \E i \in 1..ncities : s[i] = c }
OptimalDistance ==
  CHOOSE m \in {SumEdges(s) : s \in Tours} : \A s \in Tours : m <= SumEdges(s)

\* C11: every write of best_distance, the store of computeInitialBound included, changes
\* it to a value less than or equal to the value it had.
C11_BestDistanceNonIncreasing == [][best_distance' <= best_distance]_vars

C11_Witness ==
  /\ runner = "parallel"
  /\ nthreads >= 2
  /\ initial_bound_set
  /\ best_distance < NaiveTour.distance

\* C12: when a run has returned, under the parallel runner with any number of workers and
\* under DirectTaskRunner, result() is an optimal tour from city 0 to city 0 and its
\* distance is the optimal length, so both runners return the same distance.
C12_ResultIsOptimalTour ==
  mainpc = "returned" =>
    /\ best_path.distance = OptimalDistance
    /\ best_path.node \in Tours
    /\ SumEdges(best_path.node) = OptimalDistance

\* C13: whenever no thread is between its write of best_distance and its write of
\* best_path, best_distance equals best_path.distance().
C13_DistanceEqualsPath ==
  (\A w \in Threads : pc[w] \notin {"t_upd_path", "t_bound_path"}) =>
    best_distance = best_path.distance

\* C14: in every state of a run best_path.distance() >= best_distance: the stored path is
\* never shorter than the stored distance.
C14_PathNeverAhead == best_path.distance >= best_distance

C14_Witness ==
  /\ nthreads >= 2
  /\ \E w \in Threads : pc[w] = "t_upd_path" /\ path[w].distance = best_distance
  /\ best_path.distance > best_distance
  /\ best_path.distance < INT_MAX

\* C15: once a split has returned best_distance is at most the cost of the tour
\* 0,1,...,N-1,0, and split compares the children with a bound that is at most that cost,
\* never with INT_MAX.
C15_BoundAfterFirstSplit ==
  /\ split_returned => best_distance <= NaiveTour.distance
  /\ \A w \in Threads : pc[w] = "t_split_loop" => current_best[w] <= NaiveTour.distance

C15_Witness ==
  /\ split_returned
  /\ task_pool # <<>>
  /\ \E w \in Threads : pc[w] = "t_split_loop" /\ count[w] > 0
  /\ best_distance <= NaiveTour.distance

\* C19: the path of every task, in the pool or held by a thread, at every point of split
\* and solve: starts with city 0, repeats no city but the closing 0, has distance() equal to
\* the sum of the edge weights along it, and contains(i) exactly for the cities on it.
PathOK(p) ==
  /\ Len(p.node) >= 1
  /\ p.node[1] = FIRST_NODE
  /\ \A i \in 1..Len(p.node) : p.node[i] \in Cities
  /\ \A i, j \in 1..Len(p.node) :
       (i < j /\ p.node[i] = p.node[j]) => (i = 1 /\ j = Len(p.node))
  /\ p.distance = SumEdges(p.node)
  /\ \A c \in Cities :
       contains(p, c) <=> \E i \in 1..Len(p.node) : p.node[i] = c /\ (i = 1 \/ c # FIRST_NODE)

C19_PathInvariant ==
  /\ \A w \in Threads : path[w] # NoPath => PathOK(path[w])
  /\ \A k \in 1..Len(task_pool) : PathOK(task_pool[k])

C19_Witness ==
  \E w \in Threads :
    /\ pc[w] = "t_tour_check"
    /\ depth[w] > 0
    /\ check_counter[w] >= 4
    /\ Len(path[w].node) = ncities + 1
    /\ tail(path[w]) = FIRST_NODE

----------------------------------------------------------------------------
\* Properties of stop and of the ownership of the root task (SpecStop, Spec)

\* delete task: a task is destroyed by the worker that split or solved it
Deleted(x) == nProc[x] > 0

\* C16: after stop is invoked during a run every worker eventually leaves its loop, holding
\* no task, and is joined.
C16_StopJoinsAllWorkers ==
  (stoppc = "joining") ~>
     \A w \in Threads : w <= nthreads => (pc[w] \in {"w_done", "none"} /\ ~Holds(w))

\* C18: when run has returned the root task handed in by the caller has not been deleted.
C18_RootAliveAfterRun == mainpc = "returned" => ~Deleted(1)

----------------------------------------------------------------------------
\* Properties of IntVecSortTask (SpecSort) and of LockFreeStack::operator[] (SpecIndex)

IsSorted(s) == \A i \in 1..(Len(s) - 1) : s[i] <= s[i + 1]
SameElements(s, v) == Len(s) = Len(v) /\ \A x \in 0..MaxVal : Count(s, x) = Count(v, x)

\* C17: for every input vector, the empty and the one-element vector included, the task
\* run by DirectTaskRunner and the task run by PartitionedTaskStackRunner both end holding
\* the input's elements in non-decreasing order, and hold the same vector.
C17_BothRunnersSort ==
  /\ sortpc \in {"direct_done", "done"} => (IsSorted(iv1) /\ SameElements(iv1, input))
  /\ sortpc = "done" => (IsSorted(iv2) /\ SameElements(iv2, input) /\ iv1 = iv2)

C17_Witness ==
  /\ sortpc = "done"
  /\ Len(input) >= 3
  /\ ~IsSorted(input)
  /\ iv2 # input
  /\ iv1 = iv2

\* C20: every call of operator[] on the pool throws, whatever the index and the state of
\* the pool, and changes neither the pool's nodes nor its size.
C20_IndexAlwaysFails ==
  /\ [](index_errors = index_calls)
  /\ [][index_calls' # index_calls => UNCHANGED stackVars]_vars

C20_Witness ==
  /\ index_calls >= 2
  /\ index_errors = index_calls
  /\ Resident # <<>>
  /\ size_counter >= 1

----------------------------------------------------------------------------
\* Properties of the memory and of the size of LockFreeStack (SpecStack, SpecClear)

\* C21: a thread in pop that is about to read old_ptr->next (it has loaded head and found
\* old_ptr non-null) reads a node that is allocated: no other thread's pop has freed it.
C21_PopReadsLiveNode ==
  \A t \in Threads : pc[t] = "pop_next" => mem[unpack_ptr(old_head[t])].alloc

\* size() and empty() as a caller sees them
size == size_counter
empty == unpack_ptr(head) = nullptr
Quiescent == \A t \in Threads : pc[t] \in {"c_idle", "none"}

----------------------------------------------------------------------------
\* Properties of the storage of TSPPath (SpecPath)

\* C23: for every graph size that setup accepts, every push writes inside _node: no path
\* ever holds more than MAX_GRAPH nodes, the closed tour of N + 1 nodes included.
C23_PushInsideStorage ==
  /\ \A t \in Threads : Len(path[t].node) <= MAX_GRAPH
  /\ Len(best_path.node) <= MAX_GRAPH

----------------------------------------------------------------------------
\* Properties of split, merge and PartitionedTaskStackRunner::recurse (SpecSplit, SpecPart)

\* C24: a call of split leaves the tasks that were in the collection where they were and
\* adds exactly the n tasks it reports: nothing when it returns 0.
C24_SplitOnlyPushes ==
  [][(frames # <<>> /\ Top.ph = "enter")
       => LET before == Top.coll
              after == frames'[Len(frames)]
          IN /\ Len(after.coll) = Len(before) + after.n
             /\ SubSeq(after.coll, 1, Len(before)) = before]_vars

\* C25: when merge has returned in recurse, the local collection is empty.
C25_MergeEmptiesLocal ==
  \A k \in 1..Len(frames) : frames[k].ph = "merged" => frames[k].coll = <<>>

\* the positions in events of the calls of one kind on the task id
Pos(kind, id) == {k \in 1..Len(events) : events[k][1] = kind /\ events[k][2] = id}
\* the positions at which recurse(id) had its task solved or merged
Finished(id) == Pos("solve", id) \cup Pos("merge", id)
Ids == {events[k][2] : k \in 1..Len(events)}
Parent(id) == SubSeq(id, 1, Len(id) - 1)

\* C26: a task is split once; if split returned n > 0 its children 0 .. n-1 are recursed
\* once each, child c only after child c-1 has finished, merge is called after all of them
\* have finished and solve is never called on the task; if split returned 0 the task is
\* solved once and never merged.  When run returns every task has been solved or merged.
C26_RecurseOrder ==
  /\ \A id \in Ids :
       /\ Cardinality(Pos("split", id)) = 1
       /\ Cardinality(Pos("solve", id)) <= 1
       /\ Cardinality(Pos("merge", id)) <= 1
       /\ \A k \in Pos("solve", id) :
            /\ \E j \in Pos("split", id) : j < k /\ events[j][3] = 0
            /\ Pos("merge", id) = {}
       /\ \A m \in Pos("merge", id) :
            \E j \in Pos("split", id) :
              /\ j < m
              /\ events[j][3] > 0
              /\ \A c \in 0..(events[j][3] - 1) :
                   /\ \E r \in Finished(Append(id, c)) : r < m
                   /\ \E sp \in Pos("split", Append(id, c)) : j < sp
       /\ id # <<>> =>
            \A sp \in Pos("split", id) :
              /\ \E j \in Pos("split", Parent(id)) : j < sp /\ id[Len(id)] < events[j][3]
              /\ id[Len(id)] > 0 =>
                   \E r \in Finished(Append(Parent(id), id[Len(id)] - 1)) : r < sp
  /\ (frames # <<>> /\ frames[1].ph = "done") => \A id \in Ids : Finished(id) # {}

C26_Witness ==
  /\ frames # <<>>
  /\ frames[1].ph = "done"
  /\ Pos("merge", <<>>) # {}
  /\ Pos("merge", <<1>>) # {}
  /\ Pos("solve", <<1, 0>>) # {}
  /\ Pos("solve", <<0>>) # {}

----------------------------------------------------------------------------
\* Properties of FixedTaskStack and TaskStack (SpecSeq)

\* C27: push on a FixedTaskStack that holds capacity entries raises an error and leaves
\* size and contents as they were; pop on an empty FixedTaskStack or TaskStack raises an
\* error and leaves the stack empty; every other push adds its task on top and every
\* other pop removes and returns the top, changing the size by exactly one.
C27_SequentialStacksFailLoudly ==
  [][/\ \A x \in Tasks : FixedPush(x) =>
          IF fsize = fcapacity
          THEN thrown' = "FixedTaskStack full!" /\ fsize' = fsize /\ ftab' = ftab
          ELSE /\ thrown' = "none"
               /\ fsize' = fsize + 1
               /\ fsize' <= fcapacity
               /\ ftab'[fsize'] = x
               /\ \A k \in 1..fsize : ftab'[k] = ftab[k]
     /\ FixedPop =>
          IF fsize = 0
          THEN thrown' = "FixedTaskStack empty!" /\ fsize' = 0
          ELSE thrown' = "none" /\ fsize' = fsize - 1 /\ ret'[1] = ftab[fsize]
     /\ \A x \in Tasks : StackPush(x) => (thrown' = "none" /\ ttab' = Append(ttab, x))
     /\ StackPop =>
          IF ttab = <<>>
          THEN thrown' = "TaskStack empty!" /\ ttab' = <<>>
          ELSE /\ thrown' = "none"
               /\ Len(ttab') = Len(ttab) - 1
               /\ ret'[1] = ttab[Len(ttab)]]_vars

C27_Witness ==
  /\ thrown = "FixedTaskStack full!"
  /\ fcapacity >= 1
  /\ fsize = fcapacity
  /\ ops = MaxOps

----------------------------------------------------------------------------
\* Properties of updateBestPath (SpecTSP)

\* C28: a call of updateBestPath returns true (it goes on to the write of best_path) iff
\* its compare-exchange changed best_distance to the candidate's distance, which is
\* strictly less than the value replaced; a call that returns false changes neither
\* best_distance nor best_path; best_distance is written only by such a compare-exchange
\* or by the initial bound, and best_path only by a call that returns true or by the
\* initial bound.
C28_UpdateReturnsTrueIffChanged ==
  [][/\ \A w \in Threads :
          /\ (pc[w] \in {"t_upd_load", "t_upd_cas"} /\ pc'[w] # pc[w]) =>
               IF pc'[w] = "t_upd_path"
               THEN /\ best_distance' = path[w].distance
                    /\ path[w].distance < best_distance
                    /\ best_path' = best_path
               ELSE best_distance' = best_distance /\ best_path' = best_path
          /\ (pc[w] = "t_upd_path" /\ pc'[w] # pc[w]) =>
               (best_path' = path[w] /\ best_distance' = best_distance)
     /\ best_distance' # best_distance =>
          \E w \in Threads : \/ pc[w] = "t_upd_cas" /\ pc'[w] = "t_upd_path"
                             \/ pc[w] = "t_bound_store" /\ pc'[w] # pc[w]
     /\ best_path' # best_path =>
          \E w \in Threads : \/ pc[w] = "t_upd_path" /\ pc'[w] # pc[w]
                             \/ pc[w] = "t_bound_path" /\ pc'[w] # pc[w]]_vars

C28_Witness ==
  \E w \in Threads :
    /\ pc[w] = "t_upd_path"
    /\ best_distance = path[w].distance
    /\ best_path.distance # INT_MAX
    /\ best_path.distance > best_distance
    /\ \E v \in Threads : v # w /\ pc[v] = "t_upd_cas" /\ current_best[v] > best_distance

----------------------------------------------------------------------------
\* Properties of outstanding_tasks at rest (SpecStop)

\* worker w has popped a task and has not yet done the fetch_sub that completes it
Working(w) ==
  \/ pc[w] \in {"pop_dec", "split", "push_load", "push_cas", "push_inc", "push_ret",
                "tc_add", "out_add", "solve", "tp_add", "out_sub"}
  \/ pc[w] = "pop_ret" /\ ret[w] # 0

\* C29: whenever no worker is between a successful pop and the fetch_sub that follows it,
\* outstanding_tasks is the number of tasks in the pool: before and during a run, after
\* the run has returned and after stop().
C29_OutstandingIsPoolSize ==
  (\A w \in Threads : ~Working(w)) => outstanding_tasks = Len(Resident)

C29_Witness ==
  /\ stoppc = "returned"
  /\ \A w \in Threads : w <= nthreads => pc[w] = "w_done"
  /\ nProc[1] > 0
  /\ Resident # <<>>
  /\ outstanding_tasks = Len(Resident)

====
